---------------------------- MODULE Spec2Model ----------------------------
(***************************************************************************)
(* A model of the bsqlparse parsing core: the statement splitter           *)
(* (engine/statement_splitter.py), the token tree (sql.py) and the         *)
(* grouping engine (engine/grouping_class.py).                             *)
(*                                                                         *)
(* The tree is kept in an arena: `nodes` is a sequence of records, a node  *)
(* is its index.  A leaf is a sql.Token, an inner node a sql.TokenList (or *)
(* a raw Python list while the splitter still has the frame open).  The    *)
(* `parent` attribute is a field of its own, written only where the code   *)
(* writes it.  Python indices are kept 0-based as in the source; None is   *)
(* the value NoneIdx (for an index) or 0 (for a node).                     *)
(***************************************************************************)
EXTENDS Integers, Sequences, FiniteSets, TLC

VARIABLES stream, made, level, is_create, in_declare, in_case, infor, inwhile,
          begin_depth, nodes, root, grouping_on, pc, passno, raised, yielded,
          leaves0, tree1, result, calls

vars == <<stream, made, level, is_create, in_declare, in_case, infor, inwhile,
          begin_depth, nodes, root, grouping_on, pc, passno, raised, yielded,
          leaves0, tree1, result, calls>>

----------------------------------------------------------------------------
(* Bounds of the model.                                                    *)

MaxLen == 4
MaxStmts == 3
MaxKids == 3
\* the calls of a mutator a caller makes on a tree
MaxCalls == 2

----------------------------------------------------------------------------
(* The token-type lattice (tokens.py): a type is the path from the root.   *)

\* tokens.py: the token types the model uses; the type of a TokenList is None
T ==
    [Keyword |-> <<"Keyword">>,
     DML |-> <<"Keyword", "DML">>,
     DDL |-> <<"Keyword", "DDL">>,
     CTE |-> <<"Keyword", "CTE">>,
     Order |-> <<"Keyword", "Order">>,
     Punctuation |-> <<"Punctuation">>,
     Whitespace |-> <<"Text", "Whitespace">>,
     Comment |-> <<"Comment">>,
     CommentSingle |-> <<"Comment", "Single">>,
     Name |-> <<"Name">>,
     Placeholder |-> <<"Name", "Placeholder">>,
     String |-> <<"Literal", "String">>,
     StringSingle |-> <<"Literal", "String", "Single">>,
     StringSymbol |-> <<"Literal", "String", "Symbol">>,
     Number |-> <<"Literal", "Number">>,
     Integer |-> <<"Literal", "Number", "Integer">>,
     Float |-> <<"Literal", "Number", "Float">>,
     Operator |-> <<"Operator">>,
     Comparison |-> <<"Operator", "Comparison">>,
     Wildcard |-> <<"Wildcard">>,
     Assignment |-> <<"Assignment">>,
     ForIn |-> <<"ForIn">>,
     None |-> <<"None">>]

\* `t in p`: t is p or a descendant of p
InTT(t, p) == Len(p) <= Len(t) /\ SubSeq(t, 1, Len(p)) = p

T_NUMERICAL == {T.Number, T.Integer, T.Float}
T_STRING == {T.String, T.StringSingle, T.StringSymbol}
T_NAME == {T.Name, T.Placeholder}

\* a str.upper that leaves every letter as it is
Upper_same(s) == s

\* str.upper() on the values that occur
Upper(s) ==
    CASE s = "end" -> "END"
      [] s = "begin" -> "BEGIN"
      [] s = "select" -> "SELECT"
      [] s = "as" -> "AS"
      [] s = "union" -> "UNION"
      [] s = "null" -> "NULL"
      [] s = "role" -> "ROLE"
      [] s = "with" -> "WITH"
      [] s = "where" -> "WHERE"
      [] s = "insert" -> "INSERT"
      [] s = "create" -> "CREATE"
      [] OTHER -> s

Tok(tt, v) == [ttype |-> tt, value |-> v]

----------------------------------------------------------------------------
(* Python lists.                                                           *)

NoneIdx == 0 - 100

Last(s) == s[Len(s)]
Front(s) == SubSeq(s, 1, Len(s) - 1)
Min(a, b) == IF a < b THEN a ELSE b
Max(a, b) == IF a > b THEN a ELSE b

\* a slice bound as Python normalises it
SliceBound(n, i) == IF i < 0 THEN Max(0, n + i) ELSE Min(i, n)
\* lst[a:b]
PySlice(s, a, b) == SubSeq(s, SliceBound(Len(s), a) + 1, SliceBound(Len(s), b))
\* lst[a:b] = ins
PySplice(s, a, b, ins) ==
    LET lo == SliceBound(Len(s), a)
        hi == Max(lo, SliceBound(Len(s), b))
    IN  SubSeq(s, 1, lo) \o ins \o SubSeq(s, hi + 1, Len(s))
\* lst[i] is no IndexError
PyIdxOk(s, i) == i >= 0 - Len(s) /\ i < Len(s)
\* lst[i]
PyAt(s, i) == IF i < 0 THEN s[Len(s) + i + 1] ELSE s[i + 1]
\* lst.insert(i, x)
PyInsert(s, i, x) == PySplice(s, i, i, <<x>>)
\* the position list.pop(i) removes
PyPopPos(s, i) == IF i < 0 THEN Len(s) + i ELSE i

RECURSIVE IndexOf(_, _, _)
\* lst.index(x) from position `from` on (0-based), NoneIdx when absent
IndexOf(s, x, from) ==
    IF from >= Len(s) THEN NoneIdx
    ELSE IF s[from + 1] = x THEN from
    ELSE IndexOf(s, x, from + 1)

----------------------------------------------------------------------------
(* sql.Token and sql.TokenList.                                            *)

GroupClasses ==
    {"TokenList", "Statement", "Identifier", "IdentifierList", "Parenthesis",
     "OpenLoopTag", "SquareBrackets", "Assignment", "If", "Select",
     "DML_Operation", "Package", "PackageHeading", "FunctionHeading",
     "ProcedureHeading", "FunctionParam", "DeclareSection", "DataType", "For",
     "Comparison", "Comment", "FunctionBlock", "ProcedureBlock", "Where",
     "Union", "Case", "Function", "Begin", "Transaction", "Operation",
     "ReturnType", "CursorDef", "Exceptions", "Exit", "Open", "NotFound"}

\* Token.__init__
Token(tt, v) ==
    [cls |-> "Token", ttype |-> tt, value |-> v, parent |-> 0,
     normalized |-> IF InTT(tt, T.Keyword) THEN Upper(v) ELSE v,
     tokens |-> <<>>]

\* a Python list the splitter keeps a frame in
RawList == [cls |-> "list", ttype |-> T.None, value |-> "", parent |-> 0,
            normalized |-> "", tokens |-> <<>>]

is_group(n, id) == n[id].cls \in GroupClasses
is_keyword(n, id) == InTT(n[id].ttype, T.Keyword)
is_whitespace(n, id) == InTT(n[id].ttype, T.Whitespace)

\* an isinstance that finds no object to be of any class
isinstance_never(n, id, clss) == FALSE

\* isinstance(token, cls) for a set of classes; every group is a TokenList
isinstance(n, id, clss) ==
    /\ id # 0
    /\ \/ n[id].cls \in clss
       \/ "TokenList" \in clss /\ n[id].cls \in GroupClasses

RECURSIVE Descendants(_, _)
\* the node id and every node below it
Descendants(n, id) ==
    {id} \cup UNION {Descendants(n, n[id].tokens[k]) : k \in DOMAIN n[id].tokens}

RECURSIVE flatten(_, _)
RECURSIVE FlattenSeq(_, _)
\* TokenList.flatten, Token.flatten: the leaves below a node, in order
flatten(n, id) ==
    IF n[id].cls = "Token" THEN <<id>> ELSE FlattenSeq(n, n[id].tokens)
FlattenSeq(n, s) ==
    IF s = <<>> THEN <<>> ELSE flatten(n, s[1]) \o FlattenSeq(n, SubSeq(s, 2, Len(s)))

RECURSIVE Concat(_, _)
Concat(n, s) == IF s = <<>> THEN "" ELSE n[s[1]].value \o Concat(n, SubSeq(s, 2, Len(s)))

\* TokenList.__str__
str(n, id) == IF n[id].cls = "Token" THEN n[id].value ELSE Concat(n, flatten(n, id))

Range(s) == {s[i] : i \in DOMAIN s}

\* the loop that forgets to set token.parent
SetParents_forgotten(n, ids, p) == n

\* token.parent = p for every token of ids
SetParents(n, ids, p) ==
    [i \in DOMAIN n |-> IF i \in Range(ids) THEN [n[i] EXCEPT !.parent = p] ELSE n[i]]

\* TokenList.__init__ on the list object `id`: the list becomes the tokens of
\* a new group of class cls, every token gets the group as parent, and value
\* and normalized are the text of the group at this moment
TokenList_init(n, id, cls) ==
    LET n1 == SetParents(n, n[id].tokens, id)
        txt == Concat(n1, FlattenSeq(n1, n1[id].tokens))
    IN  [n1 EXCEPT ![id] = [cls |-> cls, ttype |-> T.None, value |-> txt,
                            parent |-> 0, normalized |-> txt,
                            tokens |-> n1[id].tokens]]

----------------------------------------------------------------------------
(* Token.match and utils.imt.                                              *)

\* a (ttype, values) or (ttype, values, regex) argument list of match
Pat(tt, vals) == [ttype |-> tt, values |-> vals, regex |-> FALSE]
RePat(tt, vals) == [ttype |-> tt, values |-> vals, regex |-> TRUE]

ForInRegex == "FOR\\s+\\w+\\s+IN\\b"

\* re.compile(pattern, flag).search(s) on the values that occur
RegexSearch(pattern, s, ignorecase) ==
    /\ pattern = ForInRegex
    /\ \/ s \in {"FOR i IN", "FOR I IN"}
       \/ ignorecase /\ s \in {"for i in"}

\* Token.match(ttype, values, regex): the type is compared with `is`, the
\* normalized value with the values (upper-cased for a keyword)
match(n, id, pat) ==
    /\ n[id].ttype = pat.ttype
    /\ IF pat.regex
       THEN \E v \in pat.values : RegexSearch(v, n[id].normalized, is_keyword(n, id))
       ELSE n[id].normalized \in
                (IF is_keyword(n, id) THEN {Upper(v) : v \in pat.values}
                 ELSE pat.values)

\* the t argument of imt: one token type (tested with `in`, which for a
\* token type is the lattice order) or a tuple of them (tested with `in` on
\* the tuple, which is equality with a member)
TT1(tt) == [types |-> {tt}, lattice |-> TRUE]
TTs(tts) == [types |-> tts, lattice |-> FALSE]
NoT == TTs({})

\* imt(token, i, m, t): an instance of a class of i, or matching a pattern of
\* m, or of a token type of t; False for None
imt(n, id, i, m, t) ==
    /\ id # 0
    /\ \/ isinstance(n, id, i)
       \/ \E pat \in m : match(n, id, pat)
       \/ \E tt \in t.types :
            IF t.lattice THEN InTT(n[id].ttype, tt) ELSE n[id].ttype = tt

----------------------------------------------------------------------------
(* TokenList: searching the direct children.  A result is the pair         *)
(* (index, token); (None, None) is NoneR.                                  *)

R(i, t) == [i |-> i, t |-> t]
NoneR == R(NoneIdx, 0)

MinOf(S) == CHOOSE x \in S : \A y \in S : x <= y
MaxOf(S) == CHOOSE x \in S : \A y \in S : x >= y

\* _token_matching(funcs, start, end) forward over tokens[start:end]
\* (end = NoneIdx for None); ok is the set of tokens the funcs accept
TokenMatchingFwd(n, tl, ok, start, end) ==
    LET toks == n[tl].tokens
        lo == SliceBound(Len(toks), start)
        hi == IF end = NoneIdx THEN Len(toks) ELSE SliceBound(Len(toks), end)
        hits == {k \in lo..(hi - 1) : toks[k + 1] \in ok}
    IN  IF hits = {} THEN NoneR
        ELSE R(start + (MinOf(hits) - lo), toks[MinOf(hits) + 1])

\* _token_matching(funcs, start, reverse=True) over range(start - 2, -1, -1);
\* every caller passes a start within the list
TokenMatchingRev(n, tl, ok, start) ==
    LET toks == n[tl].tokens
        hits == {k \in 0..(start - 2) : k < Len(toks) /\ toks[k + 1] \in ok}
    IN  IF hits = {} THEN NoneR ELSE R(MaxOf(hits), toks[MaxOf(hits) + 1])

\* the test of token_first, token_last, token_next and token_prev
NotSkipped(n, id, skip_ws, skip_cm) ==
    ~ \/ skip_ws /\ is_whitespace(n, id)
      \/ skip_cm /\ imt(n, id, {"Comment"}, {}, TT1(T.Comment))

\* token_next(idx, skip_ws, skip_cm); (None, None) for idx None
token_next(n, tl, idx, skip_ws, skip_cm) ==
    IF idx = NoneIdx THEN NoneR
    ELSE LET ok == {id \in Range(n[tl].tokens) : NotSkipped(n, id, skip_ws, skip_cm)}
         IN  TokenMatchingFwd(n, tl, ok, idx + 1, NoneIdx)

\* a token_prev that passes over nothing
token_prev_any(n, tl, idx, skip_ws, skip_cm) ==
    IF idx = NoneIdx THEN NoneR
    ELSE TokenMatchingRev(n, tl, Range(n[tl].tokens), idx + 1)

\* token_prev(idx, skip_ws, skip_cm); (None, None) for idx None
token_prev(n, tl, idx, skip_ws, skip_cm) ==
    IF idx = NoneIdx THEN NoneR
    ELSE LET ok == {id \in Range(n[tl].tokens) : NotSkipped(n, id, skip_ws, skip_cm)}
         IN  TokenMatchingRev(n, tl, ok, idx + 1)

\* token_last(skip_ws=True, skip_cm): the token, 0 for None
token_last(n, tl, skip_cm) ==
    LET ok == {id \in Range(n[tl].tokens) : NotSkipped(n, id, TRUE, skip_cm)}
    IN  TokenMatchingRev(n, tl, ok, Len(n[tl].tokens) + 1).t

\* token_first(skip_ws, skip_cm): the token, 0 for None
token_first(n, tl, skip_ws, skip_cm) ==
    LET ok == {id \in Range(n[tl].tokens) : NotSkipped(n, id, skip_ws, skip_cm)}
    IN  TokenMatchingFwd(n, tl, ok, 0, NoneIdx).t

\* token_next_by(i, m, t, idx): the search starts at idx + 1; idx must not
\* be None (the callers are modelled to raise then)
token_next_by(n, tl, i, m, t, idx) ==
    LET ok == {id \in Range(n[tl].tokens) : imt(n, id, i, m, t)}
    IN  TokenMatchingFwd(n, tl, ok, idx + 1, NoneIdx)

\* token_not_matching(funcs, idx): ok is the set of tokens the funcs accept
token_not_matching(n, tl, ok, idx) ==
    TokenMatchingFwd(n, tl, Range(n[tl].tokens) \ ok, idx, NoneIdx)

\* _groupable_tokens without the overrides of Parenthesis and SquareBrackets
_groupable_tokens_all(n, tl) == n[tl].tokens

\* the property _groupable_tokens: of a Parenthesis and of SquareBrackets
\* the tokens between the brackets, of every other list all its tokens
_groupable_tokens(n, tl) ==
    IF n[tl].cls \in {"Parenthesis", "SquareBrackets"}
    THEN PySlice(n[tl].tokens, 1, 0 - 1)
    ELSE n[tl].tokens

\* token_index(token): NoneIdx stands for the ValueError of list.index
token_index(n, tl, token) == IndexOf(n[tl].tokens, token, 0)

----------------------------------------------------------------------------
(* TokenList: the structural mutators.  A state of the tree is the record  *)
(* [n, err]: the arena and whether an exception has been raised.           *)

Raise(st) == [st EXCEPT !.err = TRUE]

\* the result of group_tokens: the state and the group
GR(st, grp) == [st |-> st, grp |-> grp]

\* group_tokens(grp_cls, start, end, include_end, extend)
group_tokens(st, tl, grp_cls, start, end, include_end, extend) ==
    IF st.err THEN GR(st, 0)
    ELSE IF start = NoneIdx \/ end = NoneIdx THEN GR(Raise(st), 0)
    ELSE IF ~PyIdxOk(st.n[tl].tokens, start) THEN GR(Raise(st), 0)
    ELSE
      LET n == st.n
          toks == n[tl].tokens
          start_idx == start
          first == PyAt(toks, start_idx)
          end_idx == end + (IF include_end THEN 1 ELSE 0)
      IN  IF extend /\ isinstance(n, first, {grp_cls})
          THEN LET subtokens == PySlice(toks, start_idx + 1, end_idx)
                   grp == first
                   n1 == [n EXCEPT ![grp].tokens = @ \o subtokens,
                                   ![tl].tokens = PySplice(toks, start_idx + 1, end_idx, <<>>)]
                   n2 == [n1 EXCEPT ![grp].value = str(n1, grp)]
               IN  GR([st EXCEPT !.n = SetParents(n2, subtokens, grp)], grp)
          ELSE LET subtokens == PySlice(toks, start_idx, end_idx)
                   grp == Len(n) + 1
                   n1 == Append(n, [RawList EXCEPT !.tokens = subtokens])
                   n2 == TokenList_init(n1, grp, grp_cls)
                   n3 == [n2 EXCEPT ![tl].tokens = PySplice(toks, start_idx, end_idx, <<grp>>),
                                    ![grp].parent = tl]
               IN  GR([st EXCEPT !.n = SetParents(n3, subtokens, grp)], grp)

\* pop(index)
pop(st, tl, index) ==
    IF st.err THEN st
    ELSE IF ~PyIdxOk(st.n[tl].tokens, index) THEN Raise(st)
    ELSE LET k == PyPopPos(st.n[tl].tokens, index)
         IN  [st EXCEPT !.n[tl].tokens = PySplice(@, k, k + 1, <<>>)]

\* an insert_before that sets the parent and forgets the insertion
insert_before_lost(st, tl, where, token) ==
    IF st.err THEN st ELSE [st EXCEPT !.n[token].parent = tl]

\* insert_before(where, token) with an index for where
insert_before(st, tl, where, token) ==
    IF st.err THEN st
    ELSE [st EXCEPT !.n = [st.n EXCEPT ![token].parent = tl,
                                       ![tl].tokens = PyInsert(@, where, token)]]

\* insert_after(where, token, skip_ws) with an index for where
insert_after(st, tl, where, token, skip_ws) ==
    IF st.err THEN st
    ELSE LET r == token_next(st.n, tl, where, skip_ws, FALSE)
         IN  [st EXCEPT !.n = [st.n EXCEPT ![token].parent = tl,
                                           ![tl].tokens = IF r.t = 0
                                                          THEN Append(@, token)
                                                          ELSE PyInsert(@, r.i, token)]]

----------------------------------------------------------------------------
(* Statement.                                                              *)

\* what a call hands back: the value returned, or err for an exception
Returned(v) == [val |-> v, err |-> FALSE]
Thrown == [val |-> "", err |-> TRUE]

\* Statement.get_type()
get_type(n, stmt) ==
    LET first_token == token_first(n, stmt, TRUE, TRUE)
    IN  IF first_token = 0 THEN Returned("UNKNOWN")
        ELSE IF n[first_token].ttype \in {T.DML, T.DDL}
        THEN Returned(n[first_token].normalized)
        ELSE IF n[first_token].ttype = T.CTE
        THEN LET fidx == token_index(n, stmt, first_token)
                 nx == token_next(n, stmt, fidx, TRUE, FALSE)
                 dml_keyword == token_next(n, stmt, nx.i, TRUE, FALSE).t
             IN  IF ~isinstance(n, nx.t, {"Identifier", "IdentifierList"})
                 THEN Returned("UNKNOWN")
                 ELSE IF dml_keyword = 0 THEN Thrown
                 ELSE IF n[dml_keyword].ttype = T.DML
                 THEN Returned(n[dml_keyword].normalized)
                 ELSE Returned("UNKNOWN")
        ELSE Returned("UNKNOWN")

----------------------------------------------------------------------------
(* The M_OPEN / M_CLOSE sentinels of the classes of sql.py.                *)

M_OPEN(cls) ==
    CASE cls = "Parenthesis" -> {Pat(T.Punctuation, {"("})}
      [] cls = "SquareBrackets" -> {Pat(T.Punctuation, {"["})}
      [] cls = "OpenLoopTag" -> {Pat(T.Comparison, {"<<"})}
      [] cls = "Case" -> {Pat(T.Keyword, {"CASE"})}
      [] cls = "If" -> {Pat(T.Keyword, {"IF"})}
      [] cls = "Begin" -> {Pat(T.Keyword, {"BEGIN"})}
      [] cls = "Exit" -> {Pat(T.Keyword, {"EXIT"})}
      [] cls = "Open" -> {Pat(T.Keyword, {"OPEN"})}
      [] cls = "DML_Operation" -> {Pat(T.DML, {"INSERT", "UPDATE", "DELETE"})}
      [] cls = "Select" -> {Pat(T.DML, {"SELECT"})}
      [] cls = "Where" -> {Pat(T.Keyword, {"WHERE"})}
      [] cls = "PackageHeading" -> {Pat(T.DDL, {"CREATE OR REPLACE"})}
      [] cls = "FunctionHeading" -> {Pat(T.Keyword, {"FUNCTION"})}
      [] cls = "ProcedureHeading" -> {Pat(T.Keyword, {"PROCEDURE"})}
      [] cls = "DeclareSection" -> {Pat(T.Keyword, {"IS", "AS"})}
      [] cls = "ReturnType" -> {Pat(T.Keyword, {"RETURN"})}
      [] cls = "CursorDef" -> {Pat(T.Keyword, {"CURSOR"})}
      [] cls = "Exceptions" -> {Pat(T.Keyword, {"EXCEPTION"})}
      [] OTHER -> {}

M_CLOSE(cls) ==
    CASE cls = "Parenthesis" -> {Pat(T.Punctuation, {")"})}
      [] cls = "SquareBrackets" -> {Pat(T.Punctuation, {"]"})}
      [] cls = "OpenLoopTag" -> {Pat(T.Comparison, {">>"})}
      [] cls = "Case" -> {Pat(T.Keyword, {"END", "END CASE"})}
      [] cls = "If" -> {Pat(T.Keyword, {"END IF"})}
      [] cls = "Begin" -> {Pat(T.Keyword, {"END"})}
      [] cls = "Exit" -> {Pat(T.Punctuation, {";"})}
      [] cls = "Open" -> {Pat(T.Punctuation, {";"})}
      [] cls = "DML_Operation" -> {Pat(T.Punctuation, {";"})}
      [] cls = "For" -> {Pat(T.Keyword, {"END LOOP"})}
      [] cls = "Where" ->
            {Pat(T.Keyword, {"ORDER", "GROUP", "LIMIT", "UNION", "EXCEPT",
                             "HAVING", "RETURNING", "INTO", "FOR UPDATE"})}
      [] cls = "PackageHeading" -> {Pat(T.Keyword, {"IS", "AS"})}
      [] cls = "FunctionHeading" ->
            {Pat(T.Keyword, {"IS", "AS"}), Pat(T.Punctuation, {";"}),
             Pat(T.Punctuation, {","})}
      [] cls = "Exceptions" -> {Pat(T.Keyword, {"END"})}
      [] OTHER -> {}

\* an M_OPEN of For without the FOR..IN header
For_M_OPEN_loop == <<Pat(T.Keyword, {"LOOP"})>>

\* For.M_OPEN, Select.M_CLOSE: lists, tried in order
For_M_OPEN == <<RePat(T.ForIn, {ForInRegex}), Pat(T.Keyword, {"LOOP"})>>

Select_M_CLOSE ==
    <<Pat(T.Punctuation, {";"}), Pat(T.Keyword, {"UNION"}), Pat(T.Keyword, {"UNION ALL"})>>
PackageHeading_M_NEXT == {Pat(T.Keyword, {"PACKAGE"})}
Union_M_DIVIDER == {Pat(T.Keyword, {"UNION", "UNION ALL"})}
FunctionParam_SEPARATOR == {Pat(T.Punctuation, {","})}
CursorDef_M_MIDDLE == {Pat(T.Keyword, {"IS"})}

MatchAny(n, id, pats) == \E pat \in pats : match(n, id, pat)

\* the first matcher of a list the token matches, 0 when none does
FirstMatcher(n, id, pats) ==
    LET hits == {k \in DOMAIN pats : match(n, id, pats[k])}
    IN  IF hits = {} THEN 0 ELSE MinOf(hits)

----------------------------------------------------------------------------
(* grouping: the passes over tokens that have a beginning and an end.      *)

RECURSIVE _group_matching(_, _, _)
RECURSIVE GM_loop(_, _, _, _, _, _, _)
\* _group_matching(tlist, cls)
_group_matching(st, tlist, cls) ==
    IF st.err THEN st ELSE GM_loop(st, tlist, cls, st.n[tlist].tokens, 0, <<>>, 0)

\* a turn that ends the scan at a closing token with no open one pending
GM_loop_break(st, tlist, cls, snap, idx, opens, tidx_offset) ==
    IF st.err \/ idx >= Len(snap) THEN st
    ELSE
      LET token == snap[idx + 1]
          tidx == idx - tidx_offset
      IN  IF is_whitespace(st.n, token)
          THEN GM_loop(st, tlist, cls, snap, idx + 1, opens, tidx_offset)
          ELSE IF is_group(st.n, token) /\ ~isinstance(st.n, token, {cls})
          THEN GM_loop(_group_matching(st, token, cls), tlist, cls, snap, idx + 1,
                       opens, tidx_offset)
          ELSE IF MatchAny(st.n, token, M_OPEN(cls))
          THEN GM_loop(st, tlist, cls, snap, idx + 1, Append(opens, tidx), tidx_offset)
          ELSE IF MatchAny(st.n, token, M_CLOSE(cls))
          THEN IF opens = <<>> THEN st
               ELSE GM_loop(group_tokens(st, tlist, cls, Last(opens), tidx, TRUE, FALSE).st,
                            tlist, cls, snap, idx + 1, Front(opens),
                            tidx_offset + (tidx - Last(opens)))
          ELSE GM_loop(st, tlist, cls, snap, idx + 1, opens, tidx_offset)

\* the turn idx of `for idx, token in enumerate(list(tlist))`
GM_loop(st, tlist, cls, snap, idx, opens, tidx_offset) ==
    IF st.err \/ idx >= Len(snap) THEN st
    ELSE
      LET token == snap[idx + 1]
          tidx == idx - tidx_offset
      IN  IF is_whitespace(st.n, token)
          THEN GM_loop(st, tlist, cls, snap, idx + 1, opens, tidx_offset)
          ELSE IF is_group(st.n, token) /\ ~isinstance(st.n, token, {cls})
          THEN GM_loop(_group_matching(st, token, cls), tlist, cls, snap, idx + 1,
                       opens, tidx_offset)
          ELSE IF MatchAny(st.n, token, M_OPEN(cls))
          THEN GM_loop(st, tlist, cls, snap, idx + 1, Append(opens, tidx), tidx_offset)
          ELSE IF MatchAny(st.n, token, M_CLOSE(cls)) /\ opens # <<>>
          THEN LET open_idx == Last(opens)
                   close_idx == tidx
               IN  GM_loop(group_tokens(st, tlist, cls, open_idx, close_idx, TRUE, FALSE).st,
                           tlist, cls, snap, idx + 1, Front(opens),
                           tidx_offset + (close_idx - open_idx))
          ELSE GM_loop(st, tlist, cls, snap, idx + 1, opens, tidx_offset)

RECURSIVE group_select(_, _)
RECURSIVE GS_loop(_, _, _, _, _, _)
\* group_select(tlist)
group_select(st, tlist) ==
    IF st.err THEN st ELSE GS_loop(st, tlist, st.n[tlist].tokens, 0, <<>>, 0)

GS_loop(st, tlist, snap, idx, opens, tidx_offset) ==
    IF st.err THEN st
    ELSE IF idx >= Len(snap)
    THEN IF Len(opens) = 1 /\ isinstance(st.n, tlist, {"Parenthesis"})
         THEN group_tokens(st, tlist, "Select", Last(opens),
                           Len(st.n[tlist].tokens) - 2, TRUE, FALSE).st
         ELSE st
    ELSE
      LET token == snap[idx + 1]
          tidx == idx - tidx_offset
          mk == FirstMatcher(st.n, token, Select_M_CLOSE)
      IN  IF is_whitespace(st.n, token)
          THEN GS_loop(st, tlist, snap, idx + 1, opens, tidx_offset)
          ELSE IF is_group(st.n, token) /\ ~isinstance(st.n, token, {"Select"})
          THEN GS_loop(group_select(st, token), tlist, snap, idx + 1, opens, tidx_offset)
          ELSE IF MatchAny(st.n, token, M_OPEN("Select"))
          THEN GS_loop(st, tlist, snap, idx + 1, Append(opens, tidx), tidx_offset)
          ELSE IF mk # 0 /\ opens # <<>>
          THEN LET open_idx == Last(opens)
                   close_idx == IF mk = 1 THEN tidx
                                ELSE token_prev(st.n, tlist, tidx, TRUE, TRUE).i
               IN  GS_loop(group_tokens(st, tlist, "Select", open_idx, close_idx,
                                        TRUE, FALSE).st,
                           tlist, snap, idx + 1, Front(opens),
                           tidx_offset + (close_idx - open_idx))
          ELSE GS_loop(st, tlist, snap, idx + 1, opens, tidx_offset)

RECURSIVE group_for(_, _)
RECURSIVE GF_loop(_, _, _, _, _, _, _)
\* group_for(tlist)
group_for(st, tlist) ==
    IF st.err THEN st ELSE GF_loop(st, tlist, st.n[tlist].tokens, 0, <<>>, 0, FALSE)

GF_loop(st, tlist, snap, idx, opens, tidx_offset, in_for) ==
    IF st.err \/ idx >= Len(snap) THEN st
    ELSE
      LET token == snap[idx + 1]
          tidx == idx - tidx_offset
          mk == FirstMatcher(st.n, token, For_M_OPEN)
      IN  IF is_whitespace(st.n, token)
          THEN GF_loop(st, tlist, snap, idx + 1, opens, tidx_offset, in_for)
          ELSE IF is_group(st.n, token) /\ ~isinstance(st.n, token, {"For"})
          THEN GF_loop(group_for(st, token), tlist, snap, idx + 1, opens,
                       tidx_offset, in_for)
          ELSE IF mk # 0
          THEN IF st.n[token].ttype = T.ForIn
               THEN GF_loop(st, tlist, snap, idx + 1, Append(opens, tidx),
                            tidx_offset, TRUE)
               ELSE IF ~in_for
               THEN GF_loop(st, tlist, snap, idx + 1, Append(opens, tidx),
                            tidx_offset, in_for)
               ELSE GF_loop(st, tlist, snap, idx + 1, opens, tidx_offset, FALSE)
          ELSE IF MatchAny(st.n, token, M_CLOSE("For")) /\ opens # <<>>
          THEN LET open_idx == Last(opens)
                   close_idx == tidx
               IN  GF_loop(group_tokens(st, tlist, "For", open_idx, close_idx,
                                        TRUE, FALSE).st,
                           tlist, snap, idx + 1, Front(opens),
                           tidx_offset + (close_idx - open_idx), in_for)
          ELSE GF_loop(st, tlist, snap, idx + 1, opens, tidx_offset, in_for)

----------------------------------------------------------------------------
(* grouping: the passes over tokens joined by a middle token (_group).     *)

\* the class each pass groups into, and its extend and recurse arguments
GCls(kind) ==
    CASE kind = "typecasts" -> "Identifier"
      [] kind = "period" -> "Identifier"
      [] kind = "as" -> "Identifier"
      [] kind = "assignment" -> "Assignment"
      [] kind = "comparison" -> "Comparison"
      [] kind = "arrays" -> "Identifier"
      [] kind = "operator" -> "Operation"
      [] kind = "identifier_list" -> "IdentifierList"

\* match(token) of each pass
GMatch(kind, n, token) ==
    CASE kind = "typecasts" -> match(n, token, Pat(T.Punctuation, {"::"}))
      [] kind = "period" -> match(n, token, Pat(T.Punctuation, {"."}))
      [] kind = "as" -> is_keyword(n, token) /\ n[token].normalized = "AS"
      [] kind = "assignment" -> match(n, token, Pat(T.Assignment, {":="}))
      [] kind = "comparison" -> n[token].ttype = T.Comparison
      [] kind = "arrays" -> isinstance(n, token, {"SquareBrackets"})
      [] kind = "operator" -> imt(n, token, {}, {}, TTs({T.Operator, T.Wildcard}))
      [] kind = "identifier_list" -> match(n, token, Pat(T.Punctuation, {","}))

\* valid_prev(token) of each pass; the token is not None
GValidPrev(kind, n, token) ==
    CASE kind \in {"typecasts", "assignment"} -> TRUE
      [] kind \in {"period", "arrays"} ->
            imt(n, token, {"SquareBrackets", "Identifier", "Function"}, {},
                TTs({T.Name, T.StringSymbol}))
      [] kind = "as" ->
            /\ n[token].normalized = "NULL" \/ ~is_keyword(n, token)
            /\ ~isinstance(n, token, {"FunctionHeading"})
      [] kind = "comparison" ->
            \/ imt(n, token, {"Parenthesis", "Function", "Identifier", "Operation"}, {},
                   TTs(T_NUMERICAL \cup T_STRING \cup T_NAME))
            \/ is_keyword(n, token)
      [] kind = "operator" ->
            imt(n, token, {"SquareBrackets", "Parenthesis", "Function", "Identifier",
                           "Operation"}, {},
                TTs(T_NUMERICAL \cup T_STRING \cup T_NAME))
      [] kind = "identifier_list" ->
            imt(n, token, {"Function", "Case", "Identifier", "Comparison",
                           "IdentifierList", "Operation", "FunctionParam"},
                {Pat(T.Keyword, {"null", "role"})},
                TTs(T_NUMERICAL \cup T_STRING \cup T_NAME
                      \cup {T.Keyword, T.Comment, T.Wildcard}))

\* valid_next(token) of each pass; the token may be None (0)
GValidNext(kind, n, token) ==
    CASE kind \in {"typecasts", "assignment"} -> token # 0
      [] kind \in {"period", "arrays"} -> TRUE
      [] kind = "as" -> ~imt(n, token, {}, {}, TTs({T.DML, T.DDL})) /\ token # 0
      [] OTHER -> token # 0 /\ GValidPrev(kind, n, token)

\* post(tlist, pidx, tidx, nidx) of each pass: the state (group_operator
\* retags the operator) and the span to group
GPost(kind, st, tlist, pidx, tidx, nidx) ==
    LET n == st.n
        span(a, b) == [st |-> st, from |-> a, to |-> b]
    IN  CASE kind = "period" ->
               LET next_ == IF nidx # NoneIdx THEN PyAt(n[tlist].tokens, nidx) ELSE 0
               IN  IF imt(n, next_, {"SquareBrackets", "Function"}, {},
                          TTs({T.Name, T.StringSymbol, T.Wildcard}))
                   THEN span(pidx, nidx) ELSE span(pidx, tidx)
          [] kind = "assignment" ->
               LET snidx == token_next_by(n, tlist, {}, {Pat(T.Punctuation, {";"})},
                                          NoT, nidx).i
               IN  IF snidx # NoneIdx /\ snidx # 0 THEN span(pidx, snidx - 1)
                   ELSE span(pidx, nidx)
          [] kind = "arrays" -> span(pidx, tidx)
          [] kind = "operator" ->
               IF ~PyIdxOk(n[tlist].tokens, tidx)
               THEN [st |-> Raise(st), from |-> pidx, to |-> nidx]
               ELSE [st |-> [st EXCEPT !.n[PyAt(n[tlist].tokens, tidx)].ttype = T.Operator],
                     from |-> pidx, to |-> nidx]
          [] OTHER -> span(pidx, nidx)

RECURSIVE _group(_, _, _, _, _)
RECURSIVE G_loop(_, _, _, _, _, _, _, _, _, _)
\* _group(tlist, cls, match, valid_prev, valid_next, post, extend, recurse)
_group(st, tlist, kind, extend, recurse) ==
    IF st.err THEN st
    ELSE G_loop(st, tlist, kind, extend, recurse, st.n[tlist].tokens, 0, 0, NoneIdx, 0)

\* the turn idx of `for idx, token in enumerate(list(tlist))`
G_loop(st, tlist, kind, extend, recurse, snap, idx, tidx_offset, pidx, prev_) ==
    IF st.err \/ idx >= Len(snap) THEN st
    ELSE
      LET token == snap[idx + 1]
          tidx == idx - tidx_offset
      IN  IF is_whitespace(st.n, token)
          THEN G_loop(st, tlist, kind, extend, recurse, snap, idx + 1, tidx_offset,
                      pidx, prev_)
          ELSE
            LET st1 == IF recurse /\ is_group(st.n, token)
                          /\ ~isinstance(st.n, token, {GCls(kind)})
                       THEN _group(st, token, kind, extend, TRUE)
                       ELSE st
                nx == token_next(st1.n, tlist, tidx, TRUE, FALSE)
                hit == /\ ~st1.err
                       /\ GMatch(kind, st1.n, token)
                       /\ prev_ # 0
                       /\ GValidPrev(kind, st1.n, prev_)
                       /\ GValidNext(kind, st1.n, nx.t)
                po == GPost(kind, st1, tlist, pidx, tidx, nx.i)
                gr == group_tokens(po.st, tlist, GCls(kind), po.from, po.to, TRUE, extend)
            IN  IF hit
                THEN G_loop(gr.st, tlist, kind, extend, recurse, snap, idx + 1,
                            tidx_offset + (po.to - po.from), po.from, gr.grp)
                ELSE G_loop(st1, tlist, kind, extend, recurse, snap, idx + 1,
                            tidx_offset, tidx, token)

----------------------------------------------------------------------------
(* grouping: the passes that search a token list with token_next_by.  Each *)
(* X_loop is the `while token:` loop of X, r the pair (index, token) the   *)
(* loop holds.                                                             *)

\* the index a search starts from when no idx is given
NoIdx == 0 - 1

RECURSIVE group_identifier_loop(_, _, _)
group_identifier_loop(st, tlist, r) ==
    IF st.err \/ r.t = 0 THEN st
    ELSE LET g == group_tokens(st, tlist, "Identifier", r.i, r.i, TRUE, FALSE)
         IN  group_identifier_loop(g.st, tlist,
                 token_next_by(g.st.n, tlist, {}, {}, TTs({T.StringSymbol, T.Name}), r.i))

group_identifier(st, tlist) ==
    group_identifier_loop(st, tlist,
        token_next_by(st.n, tlist, {}, {}, TTs({T.StringSymbol, T.Name}), NoIdx))

\* the test group_comments hands to token_not_matching
IsCommentOrWs(n, tk) == imt(n, tk, {}, {}, TT1(T.Comment)) \/ is_whitespace(n, tk)

RECURSIVE group_comments_loop(_, _, _)
group_comments_loop(st, tlist, r) ==
    IF st.err \/ r.t = 0 THEN st
    ELSE LET e == token_not_matching(st.n, tlist,
                      {tk \in Range(st.n[tlist].tokens) : IsCommentOrWs(st.n, tk)}, r.i)
             p == token_prev(st.n, tlist, e.i, FALSE, FALSE)
             st1 == IF e.t # 0
                    THEN group_tokens(st, tlist, "Comment", r.i, p.i, TRUE, FALSE).st
                    ELSE st
         IN  group_comments_loop(st1, tlist,
                 token_next_by(st1.n, tlist, {}, {}, TT1(T.Comment), r.i))

group_comments(st, tlist) ==
    group_comments_loop(st, tlist, token_next_by(st.n, tlist, {}, {}, TT1(T.Comment), NoIdx))

RECURSIVE group_where_loop(_, _, _)
group_where_loop(st, tlist, r) ==
    IF st.err \/ r.t = 0 THEN st
    ELSE LET toks == st.n[tlist].tokens
             e == token_next_by(st.n, tlist, {}, M_CLOSE("Where"), NoT, r.i)
             inner == _groupable_tokens(st.n, tlist)
             end == IF e.t = 0 THEN PyAt(inner, 0 - 1) ELSE PyAt(toks, e.i - 1)
             eidx == token_index(st.n, tlist, end)
             Turn(g) ==
               group_where_loop(g, tlist,
                   token_next_by(g.n, tlist, {}, M_OPEN("Where"), NoT, r.i))
         IN  IF e.t = 0 /\ inner = <<>> THEN Raise(st)
             ELSE Turn(group_tokens(st, tlist, "Where", r.i, eidx, TRUE, FALSE).st)

group_where(st, tlist) ==
    group_where_loop(st, tlist, token_next_by(st.n, tlist, {}, M_OPEN("Where"), NoT, NoIdx))

RECURSIVE group_union_loop(_, _, _)
group_union_loop(st, tlist, r) ==
    IF st.err \/ r.t = 0 THEN st
    ELSE LET p == token_prev(st.n, tlist, r.i, TRUE, TRUE)
             nx == token_next(st.n, tlist, r.i, TRUE, TRUE)
             extend == isinstance(st.n, p.t, {"Union"})
             g == group_tokens(st, tlist, "Union", p.i, nx.i, TRUE, extend)
         IN  IF g.st.err THEN g.st
             ELSE group_union_loop(g.st, tlist,
                      token_next_by(g.st.n, tlist, {}, Union_M_DIVIDER, NoT,
                                    token_index(g.st.n, tlist, g.grp)))

group_union(st, tlist) ==
    group_union_loop(st, tlist, token_next_by(st.n, tlist, {}, Union_M_DIVIDER, NoT, NoIdx))

I_ALIAS == {"Parenthesis", "Function", "Case", "Identifier", "Operation", "Comparison"}

RECURSIVE group_aliased_loop(_, _, _)
group_aliased_loop(st, tlist, r) ==
    IF st.err \/ r.t = 0 THEN st
    ELSE LET nx == token_next(st.n, tlist, r.i, TRUE, FALSE)
             st1 == IF isinstance(st.n, nx.t, {"Identifier"})
                    THEN group_tokens(st, tlist, "Identifier", r.i, nx.i, TRUE, TRUE).st
                    ELSE st
         IN  group_aliased_loop(st1, tlist,
                 token_next_by(st1.n, tlist, I_ALIAS, {}, TT1(T.Number), r.i))

group_aliased(st, tlist) ==
    group_aliased_loop(st, tlist, token_next_by(st.n, tlist, I_ALIAS, {}, TT1(T.Number), NoIdx))

RECURSIVE group_functions_loop(_, _, _)
group_functions_loop(st, tlist, r) ==
    IF st.err \/ r.t = 0 THEN st
    ELSE LET nx == token_next(st.n, tlist, r.i, TRUE, FALSE)
             st1 == IF isinstance(st.n, nx.t, {"Parenthesis"})
                    THEN group_tokens(st, tlist, "Function", r.i, nx.i, TRUE, FALSE).st
                    ELSE st
         IN  group_functions_loop(st1, tlist,
                 token_next_by(st1.n, tlist, {}, {}, TT1(T.Name), r.i))

group_functions(st, tlist) ==
    group_functions_loop(st, tlist, token_next_by(st.n, tlist, {}, {}, TT1(T.Name), NoIdx))

RECURSIVE group_order_loop(_, _, _)
group_order_loop(st, tlist, r) ==
    IF st.err \/ r.t = 0 THEN st
    ELSE LET p == token_prev(st.n, tlist, r.i, TRUE, FALSE)
             hit == imt(st.n, p.t, {"Identifier"}, {}, TT1(T.Number))
             st1 == IF hit
                    THEN group_tokens(st, tlist, "Identifier", p.i, r.i, TRUE, FALSE).st
                    ELSE st
             tidx == IF hit THEN p.i ELSE r.i
         IN  group_order_loop(st1, tlist,
                 token_next_by(st1.n, tlist, {}, {}, TT1(T.Order), tidx))

\* group_order is not decorated: it looks at the statement's children only
group_order(st, tlist) ==
    group_order_loop(st, tlist, token_next_by(st.n, tlist, {}, {}, TT1(T.Order), NoIdx))

RECURSIVE align_comments_loop(_, _, _)
align_comments_loop(st, tlist, r) ==
    IF st.err \/ r.t = 0 THEN st
    ELSE LET p == token_prev(st.n, tlist, r.i, TRUE, FALSE)
             hit == isinstance(st.n, p.t, {"TokenList"})
             st1 == IF hit
                    THEN group_tokens(st, tlist, "TokenList", p.i, r.i, TRUE, TRUE).st
                    ELSE st
             tidx == IF hit THEN p.i ELSE r.i
         IN  align_comments_loop(st1, tlist,
                 token_next_by(st1.n, tlist, {"Comment"}, {}, NoT, tidx))

align_comments(st, tlist) ==
    align_comments_loop(st, tlist, token_next_by(st.n, tlist, {"Comment"}, {}, NoT, NoIdx))

----------------------------------------------------------------------------
(* grouping: headings, return types, parameters, cursors.                  *)

\* token.value.upper() is 'IS' or 'AS'
IsOrAs(n, tk) == Upper(n[tk].value) \in {"IS", "AS"}

RECURSIVE group_procedure_heading_loop(_, _, _)
group_procedure_heading_loop(st, tlist, r) ==
    IF st.err \/ r.t = 0 THEN st
    ELSE LET n == st.n
             proid == r.i
             tk == token_next(n, tlist, proid, TRUE, TRUE)
             nx == token_next(n, tlist, tk.i, TRUE, FALSE)
             st1 == IF tk.t = 0 THEN Raise(st)
                    ELSE IF n[tk.t].ttype # T.Name THEN st
                    ELSE IF isinstance(n, nx.t, {"Parenthesis"})
                    THEN group_tokens(st, tlist, "ProcedureHeading", proid, nx.i, TRUE, FALSE).st
                    ELSE IF nx.t = 0 THEN Raise(st)
                    ELSE IF IsOrAs(n, nx.t)
                    THEN group_tokens(st, tlist, "ProcedureHeading", proid, tk.i, TRUE, FALSE).st
                    ELSE st
         IN  group_procedure_heading_loop(st1, tlist,
                 token_next_by(st1.n, tlist, {}, M_OPEN("ProcedureHeading"), NoT, proid))

group_procedure_heading(st, tlist) ==
    group_procedure_heading_loop(st, tlist,
        token_next_by(st.n, tlist, {}, M_OPEN("ProcedureHeading"), NoT, NoIdx))

RECURSIVE group_function_heading_loop(_, _, _)
group_function_heading_loop(st, tlist, r) ==
    IF st.err \/ r.t = 0 THEN st
    ELSE LET n == st.n
             proid == r.i
             nto == token_next(n, tlist, proid, TRUE, TRUE)
             nx0 == token_next(n, tlist, nto.i, TRUE, FALSE)
             nx == IF isinstance(n, nx0.t, {"Parenthesis"})
                   THEN token_next(n, tlist, nx0.i, TRUE, TRUE) ELSE nx0
             cn == token_next_by(n, tlist, {}, M_CLOSE("FunctionHeading"), NoT, nx.i)
             st1 == IF nto.t = 0 \/ n[nto.t].ttype # T.Name THEN st
                    ELSE IF nx.i = NoneIdx THEN Raise(st)
                    ELSE IF cn.t # 0
                    THEN group_tokens(st, tlist, "FunctionHeading", proid, cn.i - 1,
                                      TRUE, FALSE).st
                    ELSE IF isinstance(n, n[nx.t].parent, {"Parenthesis"})
                    THEN group_tokens(st, tlist, "FunctionHeading", proid,
                                      Len(n[n[nx.t].parent].tokens) - 2, TRUE, FALSE).st
                    ELSE st
         IN  group_function_heading_loop(st1, tlist,
                 token_next_by(st1.n, tlist, {}, M_OPEN("FunctionHeading"), NoT, proid))

group_function_heading(st, tlist) ==
    group_function_heading_loop(st, tlist,
        token_next_by(st.n, tlist, {}, M_OPEN("FunctionHeading"), NoT, NoIdx))

RECURSIVE group_function_return_type_loop(_, _, _)
group_function_return_type_loop(st, tlist, r) ==
    IF st.err \/ r.t = 0 THEN st
    ELSE LET n == st.n
             fhtk == r.t
             rt == token_next_by(n, fhtk, {}, M_OPEN("ReturnType"), NoT, NoIdx)
             tt == token_next(n, fhtk, rt.i, TRUE, FALSE)
             st1 == IF rt.t # 0
                    THEN group_tokens(st, fhtk, "ReturnType", rt.i, tt.i, TRUE, FALSE).st
                    ELSE st
         IN  group_function_return_type_loop(st1, tlist,
                 token_next_by(st1.n, tlist, {"FunctionHeading"}, {}, NoT, r.i))

group_function_return_type(st, tlist) ==
    group_function_return_type_loop(st, tlist,
        token_next_by(st.n, tlist, {"FunctionHeading"}, {}, NoT, NoIdx))

RECURSIVE FP_params(_, _, _, _)
\* the inner `while param:` of group_function_params: the state and start
FP_params(st, prntkn, start, e) ==
    IF st.err \/ e.t = 0 THEN [st |-> st, start |-> start]
    ELSE LET \* after the group_tokens of this turn, in state g
             Turn(g) ==
               LET pidx == token_index(g.n, prntkn, e.t)
                   start1 == token_next(g.n, prntkn, pidx, TRUE, TRUE).i
               IN  IF g.err THEN [st |-> g, start |-> start]
                   ELSE IF start1 = NoneIdx THEN [st |-> Raise(g), start |-> start1]
                   ELSE FP_params(g, prntkn, start1,
                            token_next_by(g.n, prntkn, {}, FunctionParam_SEPARATOR, NoT, start1))
         IN  Turn(group_tokens(st, prntkn, "FunctionParam", start,
                               token_prev(st.n, prntkn, e.i, TRUE, TRUE).i, TRUE, FALSE).st)

\* what group_function_params does to the Parenthesis of one Function
FP_parenthesis(st, prntkn) ==
    LET n == st.n
        o == token_next_by(n, prntkn, {}, M_OPEN("Parenthesis"), NoT, NoIdx)
        start == token_next(n, prntkn, o.i, TRUE, TRUE).i
        e == token_next_by(n, prntkn, {}, FunctionParam_SEPARATOR, NoT, NoIdx)
        \* after the loop over the separators, which ended in ps
        Close(ps) ==
          LET c == token_next_by(ps.st.n, prntkn, {}, M_CLOSE("Parenthesis"), NoT, NoIdx)
              end == token_prev(ps.st.n, prntkn, c.i, TRUE, TRUE).i
          IN  group_tokens(ps.st, prntkn, "FunctionParam", ps.start, end, TRUE, FALSE).st
    IN  Close(FP_params(st, prntkn, start, e))

RECURSIVE group_function_params_loop(_, _, _)
group_function_params_loop(st, tlist, r) ==
    IF st.err \/ r.t = 0 THEN st
    ELSE LET prn == token_next_by(st.n, r.t, {"Parenthesis"}, {}, NoT, NoIdx)
             st1 == IF prn.t # 0 THEN FP_parenthesis(st, prn.t) ELSE st
         IN  group_function_params_loop(st1, tlist,
                 token_next_by(st1.n, tlist, {"Function"}, {}, NoT, r.i))

group_function_params(st, tlist) ==
    group_function_params_loop(st, tlist,
        token_next_by(st.n, tlist, {"Function"}, {}, NoT, NoIdx))

RECURSIVE group_cursor_def_loop(_, _, _)
group_cursor_def_loop(st, tlist, r) ==
    IF st.err \/ r.t = 0 THEN st
    ELSE LET n == st.n
             ntk == token_next(n, tlist, r.i, TRUE, FALSE)
             is_ == token_next_by(n, tlist, {}, CursorDef_M_MIDDLE, NoT, ntk.i)
             nx == token_next(n, tlist, is_.i, TRUE, TRUE)
             st1 == IF ntk.t = 0 THEN Raise(st)
                    ELSE IF ~(isinstance(n, ntk.t, {"Function"}) \/ n[ntk.t].ttype = T.Name)
                    THEN st
                    ELSE IF isinstance(n, nx.t, {"Union", "Select"})
                    THEN group_tokens(st, tlist, "CursorDef", r.i, nx.i, TRUE, FALSE).st
                    ELSE st
         IN  group_cursor_def_loop(st1, tlist,
                 token_next_by(st1.n, tlist, {}, M_OPEN("CursorDef"), NoT, r.i))

group_cursor_def(st, tlist) ==
    group_cursor_def_loop(st, tlist,
        token_next_by(st.n, tlist, {}, M_OPEN("CursorDef"), NoT, NoIdx))

----------------------------------------------------------------------------
(* grouping: function and procedure blocks, declare sections, exceptions.  *)

\* the result of _internal_fun_proc_grouping: the state and the return value
IR(st, ret) == [st |-> st, ret |-> ret]

RECURSIVE _internal_fun_proc_grouping(_, _, _)
\* one arm of _internal_fun_proc_grouping: the heading at index hid heads a
\* nested block of class blk
IFP_arm(st, tlist, hid, blk) ==
    LET nx == token_next(st.n, tlist, hid, TRUE, TRUE)
        \* after the nested call, in state st1
        Block(st1) ==
          LET b == token_next_by(st1.n, tlist, {"Begin"}, {}, NoT, nx.i)
              e == token_next(st1.n, tlist, b.i, TRUE, TRUE)
              Ret(g) == IR(g, ~g.err)
          IN  IF st1.err \/ b.t = 0 THEN IR(st1, FALSE)
              ELSE Ret(group_tokens(st1, tlist, blk, hid, e.i, TRUE, FALSE).st)
    IN  IF nx.t = 0 THEN IR(Raise(st), FALSE)
        ELSE IF ~IsOrAs(st.n, nx.t) THEN IR(st, FALSE)
        ELSE Block(_internal_fun_proc_grouping(st, tlist, nx.i).st)

_internal_fun_proc_grouping(st, tlist, _nidx) ==
    IF st.err THEN IR(st, FALSE)
    ELSE
      LET n == st.n
          b == token_next_by(n, tlist, {"Begin"}, {}, NoT, _nidx)
          ph == token_next_by(n, tlist, {"ProcedureHeading"}, {}, NoT, _nidx)
          fh == token_next_by(n, tlist, {"FunctionHeading"}, {}, NoT, _nidx)
          \* the heading nearest to _nidx, if one comes before the Begin:
          \* "p" for the procedure's, "f" for the function's
          arm == IF ph.t # 0 /\ fh.t # 0 /\ ph.i < b.i /\ fh.i < b.i
                 THEN IF ph.i - _nidx < fh.i - _nidx THEN "p"
                      ELSE IF ph.i - _nidx > fh.i - _nidx THEN "f"
                      ELSE ""
                 ELSE IF ph.t # 0 /\ ph.i < b.i THEN "p"
                 ELSE IF fh.t # 0 /\ fh.i < b.i THEN "f"
                 ELSE ""
      IN  IF b.t = 0 \/ arm = "" THEN IR(st, FALSE)
          ELSE IFP_arm(st, tlist, IF arm = "p" THEN ph.i ELSE fh.i,
                       IF arm = "p" THEN "ProcedureBlock" ELSE "FunctionBlock")

RECURSIVE IFP_while(_, _, _)
\* while self._internal_fun_proc_grouping(tlist, _nidx): continue
IFP_while(st, tlist, _nidx) ==
    LET Again(r) == IF r.ret THEN IFP_while(r.st, tlist, _nidx) ELSE r.st
    IN  Again(_internal_fun_proc_grouping(st, tlist, _nidx))

RECURSIVE group_function_block_loop(_, _, _)
group_function_block_loop(st, tlist, r) ==
    IF st.err \/ r.t = 0 THEN st
    ELSE LET start == r.i
             nx == token_next(st.n, tlist, start, TRUE, TRUE)
             \* after the while loop, in state st1
             Block(st1) ==
               LET b == token_next_by(st1.n, tlist, {"Begin"}, {}, NoT, nx.i)
                   e == token_next(st1.n, tlist, b.i, TRUE, TRUE)
               IN  IF st1.err \/ b.t = 0 THEN st1
                   ELSE group_tokens(st1, tlist, "FunctionBlock", start,
                                     IF e.t # 0 THEN e.i ELSE b.i, TRUE, FALSE).st
             Turn(st2) ==
               group_function_block_loop(st2, tlist,
                   token_next_by(st2.n, tlist, {"FunctionHeading"}, {}, NoT, start))
         IN  Turn(IF nx.t = 0 \/ ~IsOrAs(st.n, nx.t) THEN st
                  ELSE Block(IFP_while(st, tlist, nx.i)))

group_function_block(st, tlist) ==
    group_function_block_loop(st, tlist,
        token_next_by(st.n, tlist, {"FunctionHeading"}, {}, NoT, NoIdx))

RECURSIVE group_procedure_block_loop(_, _, _)
group_procedure_block_loop(st, tlist, r) ==
    IF st.err \/ r.t = 0 THEN st
    ELSE LET start == r.i
             nx == token_next(st.n, tlist, start, TRUE, TRUE)
             \* after the while loop, in state st1
             Block(st1) ==
               LET b == token_next_by(st1.n, tlist, {"Begin"}, {}, NoT, nx.i)
                   e == token_next(st1.n, tlist, b.i, TRUE, TRUE)
                   s == token_next(st1.n, tlist, e.i, TRUE, TRUE)
               IN  IF st1.err \/ b.t = 0 THEN st1
                   ELSE IF e.t # 0 /\ s.t = 0 THEN Raise(st1)
                   ELSE group_tokens(st1, tlist, "ProcedureBlock", start,
                                     IF e.t = 0 THEN b.i
                                     ELSE IF st1.n[s.t].value = ";" THEN s.i
                                     ELSE e.i, TRUE, FALSE).st
             Turn(st2) ==
               group_procedure_block_loop(st2, tlist,
                   token_next_by(st2.n, tlist, {"ProcedureHeading"}, {}, NoT, start))
         IN  Turn(IF nx.t = 0 \/ ~IsOrAs(st.n, nx.t) THEN st
                  ELSE Block(IFP_while(st, tlist, nx.i)))

group_procedure_block(st, tlist) ==
    group_procedure_block_loop(st, tlist,
        token_next_by(st.n, tlist, {"ProcedureHeading"}, {}, NoT, NoIdx))

Blocks == {"FunctionBlock", "ProcedureBlock"}

RECURSIVE group_declare_section_loop(_, _, _)
group_declare_section_loop(st, tlist, r) ==
    IF st.err \/ r.t = 0 THEN st
    ELSE LET n == st.n
             functkn == r.t
             s == token_next_by(n, functkn, {}, M_OPEN("DeclareSection"), NoT, NoIdx)
             b == token_next_by(n, functkn, {"Begin"}, {}, NoT, NoIdx)
             nx == token_next(n, functkn, s.i, TRUE, TRUE)
             st1 == IF s.t = 0 THEN st
                    ELSE IF b.i = NoneIdx THEN Raise(st)
                    ELSE IF s.i + 2 <= b.i - 2 /\ nx.t # b.t
                    THEN group_tokens(st, functkn, "DeclareSection", nx.i, b.i - 2,
                                      TRUE, FALSE).st
                    ELSE st
         IN  group_declare_section_loop(st1, tlist,
                 token_next_by(st1.n, tlist, Blocks, {}, NoT, r.i))

group_declare_section(st, tlist) ==
    group_declare_section_loop(st, tlist, token_next_by(st.n, tlist, Blocks, {}, NoT, NoIdx))

\* match, valid_prev and valid_next of group_exceptions
EX_match(n, tk) ==
    is_keyword(n, tk) /\ (MatchAny(n, tk, M_OPEN("Exceptions"))
                            \/ MatchAny(n, tk, M_CLOSE("Exceptions")))
EX_valid_prev(n, tk) == is_keyword(n, tk) /\ MatchAny(n, tk, M_OPEN("Exceptions"))
EX_valid_next(n, tk) == tk # 0 /\ is_keyword(n, tk) /\ MatchAny(n, tk, M_CLOSE("Exceptions"))

RECURSIVE group_exceptions(_, _)
RECURSIVE EX_loop(_, _, _, _, _, _, _)
group_exceptions(st, tlist) ==
    IF st.err THEN st ELSE EX_loop(st, tlist, st.n[tlist].tokens, 0, 0, NoneIdx, 0)

\* the turn idx of `for idx, token in enumerate(list(tlist))`
EX_loop(st, tlist, snap, idx, tidx_offset, pidx, prev_) ==
    IF st.err \/ idx >= Len(snap) THEN st
    ELSE
      LET token == snap[idx + 1]
          tidx == idx - tidx_offset
      IN  IF is_whitespace(st.n, token)
          THEN EX_loop(st, tlist, snap, idx + 1, tidx_offset, pidx, prev_)
          ELSE
            LET st1 == IF is_group(st.n, token) /\ ~isinstance(st.n, token, {"Exceptions"})
                       THEN group_exceptions(st, token) ELSE st
                n == st1.n
                to_idx == token_prev(n, tlist, tidx, TRUE, TRUE).i
                g == group_tokens(st1, tlist, "Exceptions", pidx, to_idx, TRUE, FALSE)
            IN  IF st1.err \/ ~EX_match(n, token)
                THEN EX_loop(st1, tlist, snap, idx + 1, tidx_offset, pidx, prev_)
                ELSE IF prev_ # 0 /\ EX_valid_prev(n, prev_) /\ EX_valid_next(n, token)
                THEN EX_loop(g.st, tlist, snap, idx + 1, tidx_offset + (to_idx - pidx),
                             pidx, g.grp)
                ELSE EX_loop(st1, tlist, snap, idx + 1, tidx_offset, tidx, token)

----------------------------------------------------------------------------
(* grouping: flattening single-child Statement and Identifier wrappers.    *)

\* a pass that stops at a group with several children and leaves the
\* wrappers below it alone
Flatter_for_skip(st, stmt, sid, cls) == st

RECURSIVE Flatter(_, _, _, _)
RECURSIVE Flatter_for(_, _, _, _)
\* _flatter_statement_class / _flatter_identifier_class (stmt, stmid), for
\* the class cls they flatten
Flatter(st, stmt, stmid, cls) ==
    IF st.err THEN st
    ELSE IF isinstance(st.n, stmt, {cls}) /\ Len(st.n[stmt].tokens) = 1
    THEN LET par == st.n[stmt].parent
             child == st.n[stmt].tokens[1]
         IN  IF par = 0 THEN Raise(st)
             ELSE Flatter(insert_before(pop(st, par, stmid), par, stmid, child),
                          child, stmid, cls)
    ELSE IF is_group(st.n, stmt) THEN Flatter_for(st, stmt, 0, cls)
    ELSE st

\* for sid, stkn in enumerate(stmt.tokens)
Flatter_for(st, stmt, sid, cls) ==
    IF st.err \/ sid >= Len(st.n[stmt].tokens) THEN st
    ELSE LET stkn == st.n[stmt].tokens[sid + 1]
         IN  Flatter_for(IF is_group(st.n, stkn) THEN Flatter(st, stkn, sid, cls) ELSE st,
                         stmt, sid + 1, cls)

RECURSIVE flatter_class_loop(_, _, _, _)
flatter_class_loop(st, tlist, r, cls) ==
    IF st.err \/ r.t = 0 THEN st
    ELSE LET st1 == Flatter(st, r.t, r.i, cls)
         IN  flatter_class_loop(st1, tlist,
                 token_next_by(st1.n, tlist, {cls}, {}, NoT, r.i), cls)

flatter_statement_class(st, tlist) ==
    flatter_class_loop(st, tlist,
        token_next_by(st.n, tlist, {"Statement"}, {}, NoT, NoIdx), "Statement")

flatter_identifier_class(st, tlist) ==
    flatter_class_loop(st, tlist,
        token_next_by(st.n, tlist, {"Identifier"}, {}, NoT, NoIdx), "Identifier")

----------------------------------------------------------------------------
(* grouping: the recurse decorator and group_package.                      *)

\* the classes a decorated pass does not descend into
RecurseCls(name) ==
    CASE name = "group_identifier" -> {"Identifier"}
      [] name = "group_comments" -> {"Comment"}
      [] name = "group_function_block" -> {"FunctionBlock"}
      [] name = "group_procedure_block" -> {"ProcedureBlock"}
      [] name = "group_function_params" -> {"FunctionParam"}
      [] name = "group_declare_section" -> {"DeclareSection"}
      [] name = "group_where" -> {"Where"}
      [] name = "group_union" -> {"Union"}
      [] name = "group_functions" -> {"Function"}
      [] name = "group_procedure_heading" -> {"ProcedureHeading"}
      [] name = "group_function_heading" -> {"FunctionHeading"}
      [] name = "group_function_return_type" -> {"ReturnType"}
      [] name = "flatter_statement_class" -> {"Statement"}
      [] name = "flatter_identifier_class" -> {"Identifier"}
      [] name = "group_package" -> {"Package"}
      [] name = "group_cursor_def" -> {"CursorDef"}
      [] OTHER -> {}

RECURSIVE recurse(_, _, _)
RECURSIVE recurse_loop(_, _, _, _)
RECURSIVE Body(_, _, _)

RECURSIVE GP_loop(_, _, _, _)
\* the body of group_package
group_package(st, tlist) ==
    IF st.err THEN st ELSE GP_loop(st, tlist, st.n[tlist].tokens, 0)

\* the turn idx of `for idx, token in enumerate(list(tlist))`; tidx_offset
\* stays 0, so tidx is idx
GP_loop(st, tlist, snap, idx) ==
    IF st.err \/ idx >= Len(snap) THEN st
    ELSE
      LET token == snap[idx + 1]
          tidx == idx
      IN  IF is_whitespace(st.n, token) THEN GP_loop(st, tlist, snap, idx + 1)
          ELSE
            LET st1 == IF is_group(st.n, token) /\ ~isinstance(st.n, token, {"Package"})
                       THEN recurse(st, token, "group_package") ELSE st
                n == st1.n
                ii == token_next_by(n, tlist, {}, PackageHeading_M_NEXT, NoT, tidx)
                par == n[tlist].parent
                last == token_last(n, par, TRUE)
                g1 == group_tokens(st1, par, "Statement", 0, token_index(n, par, last),
                                   TRUE, TRUE)
                a == token_next_by(g1.st.n, tlist, {}, M_CLOSE("PackageHeading"), NoT, NoIdx)
                g2 == group_tokens(g1.st, tlist, "PackageHeading", ii.i, a.i, TRUE, FALSE)
                g3 == group_tokens(g2.st, tlist, "Package", tidx,
                                   Len(g2.st.n[tlist].tokens), TRUE, FALSE)
            IN  IF st1.err THEN st1
                ELSE IF ~isinstance(n, token, {"Package"})
                        /\ imt(n, token, {}, M_OPEN("PackageHeading"), NoT)
                        /\ ii.t # 0
                THEN GP_loop(IF par = 0 THEN Raise(st1) ELSE g3.st, tlist, snap, idx + 1)
                ELSE GP_loop(st1, tlist, snap, idx + 1)

\* the function a decorated pass wraps
Body(name, st, tlist) ==
    CASE name = "group_identifier" -> group_identifier(st, tlist)
      [] name = "group_comments" -> group_comments(st, tlist)
      [] name = "group_function_block" -> group_function_block(st, tlist)
      [] name = "group_procedure_block" -> group_procedure_block(st, tlist)
      [] name = "group_function_params" -> group_function_params(st, tlist)
      [] name = "group_declare_section" -> group_declare_section(st, tlist)
      [] name = "group_where" -> group_where(st, tlist)
      [] name = "group_union" -> group_union(st, tlist)
      [] name = "group_aliased" -> group_aliased(st, tlist)
      [] name = "group_functions" -> group_functions(st, tlist)
      [] name = "group_procedure_heading" -> group_procedure_heading(st, tlist)
      [] name = "group_function_heading" -> group_function_heading(st, tlist)
      [] name = "group_function_return_type" -> group_function_return_type(st, tlist)
      [] name = "flatter_statement_class" -> flatter_statement_class(st, tlist)
      [] name = "flatter_identifier_class" -> flatter_identifier_class(st, tlist)
      [] name = "align_comments" -> align_comments(st, tlist)
      [] name = "group_package" -> group_package(st, tlist)
      [] name = "group_cursor_def" -> group_cursor_def(st, tlist)

\* @recurse(cls, ...): the pass runs on every sublist that is no instance of
\* cls, then on the list itself
recurse(st, tlist, name) ==
    IF st.err THEN st ELSE Body(name, recurse_loop(st, tlist, name, 0), tlist)

\* for sgroup in tlist.get_sublists(), a generator over the live list
recurse_loop(st, tlist, name, k) ==
    IF st.err \/ k >= Len(st.n[tlist].tokens) THEN st
    ELSE LET sgroup == st.n[tlist].tokens[k + 1]
         IN  recurse_loop(IF is_group(st.n, sgroup)
                             /\ ~isinstance(st.n, sgroup, RecurseCls(name))
                          THEN recurse(st, sgroup, name) ELSE st,
                          tlist, name, k + 1)

----------------------------------------------------------------------------
(* grouping.group: the passes in the order they run.                       *)

group_brackets(st, tlist) == _group_matching(st, tlist, "SquareBrackets")
group_parenthesis(st, tlist) == _group_matching(st, tlist, "Parenthesis")
group_openlooptag(st, tlist) == _group_matching(st, tlist, "OpenLoopTag")
group_case(st, tlist) == _group_matching(st, tlist, "Case")
group_if(st, tlist) == _group_matching(st, tlist, "If")
group_dml(st, tlist) == _group_matching(st, tlist, "DML_Operation")
group_begin(st, tlist) == _group_matching(st, tlist, "Begin")
group_exit(st, tlist) == _group_matching(st, tlist, "Exit")
group_open(st, tlist) == _group_matching(st, tlist, "Open")

group_typecasts(st, tlist) == _group(st, tlist, "typecasts", TRUE, TRUE)
group_period(st, tlist) == _group(st, tlist, "period", TRUE, TRUE)
group_as(st, tlist) == _group(st, tlist, "as", TRUE, TRUE)
group_assignment(st, tlist) == _group(st, tlist, "assignment", TRUE, TRUE)
group_comparison(st, tlist) == _group(st, tlist, "comparison", FALSE, TRUE)
group_arrays(st, tlist) == _group(st, tlist, "arrays", TRUE, FALSE)
group_operator(st, tlist) == _group(st, tlist, "operator", FALSE, TRUE)
group_identifier_list(st, tlist) == _group(st, tlist, "identifier_list", TRUE, TRUE)

\* the list `for func in [...]` of group runs over
Passes ==
    <<"group_comments", "group_package", "group_brackets", "group_parenthesis",
      "group_dml", "group_select", "group_case", "group_openlooptag", "group_if",
      "group_for", "group_begin", "group_exit", "group_procedure_heading",
      "group_function_heading", "group_function_return_type", "group_functions",
      "group_where", "group_union", "group_period", "group_arrays",
      "group_identifier", "group_order", "group_typecasts", "group_operator",
      "group_comparison", "group_as", "group_aliased", "group_assignment",
      "align_comments", "group_function_params", "group_identifier_list",
      "flatter_statement_class", "flatter_identifier_class", "group_cursor_def",
      "group_procedure_block", "group_function_block", "group_declare_section",
      "group_exceptions", "group_open">>

\* the passes carrying the recurse decorator
Decorated ==
    {"group_comments", "group_package", "group_procedure_heading",
     "group_function_heading", "group_function_return_type", "group_functions",
     "group_where", "group_union", "group_identifier", "group_aliased",
     "align_comments", "group_function_params", "flatter_statement_class",
     "flatter_identifier_class", "group_cursor_def", "group_procedure_block",
     "group_function_block", "group_declare_section"}

\* func(stmt) for the pass of that name
func(name, st, stmt) ==
    IF name \in Decorated THEN recurse(st, stmt, name)
    ELSE CASE name = "group_brackets" -> group_brackets(st, stmt)
           [] name = "group_parenthesis" -> group_parenthesis(st, stmt)
           [] name = "group_dml" -> group_dml(st, stmt)
           [] name = "group_select" -> group_select(st, stmt)
           [] name = "group_case" -> group_case(st, stmt)
           [] name = "group_openlooptag" -> group_openlooptag(st, stmt)
           [] name = "group_if" -> group_if(st, stmt)
           [] name = "group_for" -> group_for(st, stmt)
           [] name = "group_begin" -> group_begin(st, stmt)
           [] name = "group_exit" -> group_exit(st, stmt)
           [] name = "group_period" -> group_period(st, stmt)
           [] name = "group_arrays" -> group_arrays(st, stmt)
           [] name = "group_order" -> group_order(st, stmt)
           [] name = "group_typecasts" -> group_typecasts(st, stmt)
           [] name = "group_operator" -> group_operator(st, stmt)
           [] name = "group_comparison" -> group_comparison(st, stmt)
           [] name = "group_as" -> group_as(st, stmt)
           [] name = "group_assignment" -> group_assignment(st, stmt)
           [] name = "group_identifier_list" -> group_identifier_list(st, stmt)
           [] name = "group_exceptions" -> group_exceptions(st, stmt)
           [] name = "group_open" -> group_open(st, stmt)

----------------------------------------------------------------------------
(* StatementSplitter.                                                      *)

StartsWithFOR(s) == s \in {"FOR", "FOR I IN", "FOR UPDATE", "FOREACH"}

\* _change_splitlevel: the level change d and the attributes after the call
_change_splitlevel(s, ttype, value) ==
    LET unified == Upper(value)
        same(d) == [s EXCEPT !.d = d]
    IN  IF ~InTT(ttype, T.Keyword) THEN same(0)
        ELSE IF ttype = T.DDL /\ unified = "CREATE OR REPLACE"
             THEN [s EXCEPT !.d = 1, !.is_create = TRUE]
        ELSE IF unified = "DECLARE" /\ s.is_create /\ s.begin_depth = 0
             THEN [s EXCEPT !.d = 1, !.in_declare = TRUE]
        ELSE IF unified = "BEGIN"
             THEN [s EXCEPT !.d = 1, !.begin_depth = s.begin_depth + 1]
        ELSE IF unified = "END"
             THEN IF s.in_case > 0
                  THEN [s EXCEPT !.d = 0 - 1, !.in_case = s.in_case - 1]
                  ELSE [s EXCEPT !.d = 0 - 1,
                                 !.begin_depth = Max(0, s.begin_depth - 1)]
        ELSE IF /\ (StartsWithFOR(unified) /\ ttype = T.ForIn) \/ unified = "LOOP"
                /\ s.is_create
                /\ s.begin_depth > 0
             THEN IF StartsWithFOR(unified) THEN [s EXCEPT !.d = 1, !.infor = TRUE]
                  ELSE IF s.infor THEN [s EXCEPT !.d = 0, !.infor = FALSE]
                  ELSE IF s.inwhile THEN [s EXCEPT !.d = 0, !.inwhile = FALSE]
                  ELSE same(1)
        ELSE IF unified = "CASE"
             THEN [s EXCEPT !.d = 1, !.in_case = s.in_case + 1]
        ELSE IF unified \in {"IF", "WHILE"} /\ s.is_create /\ s.begin_depth > 0
             THEN IF unified = "WHILE" THEN [s EXCEPT !.d = 1, !.inwhile = TRUE]
                  ELSE same(1)
        ELSE IF unified = "END CASE"
             THEN [s EXCEPT !.d = 0 - 1, !.in_case = s.in_case - 1]
        ELSE IF unified \in {"END IF", "END WHILE", "END LOOP"} THEN same(0 - 1)
        ELSE same(0)

RECURSIVE Walk(_, _, _)
\* k times `temp = temp[len(temp) - 1]`; 0 when a step raises (temp is no
\* list, so len() fails, or the list is empty)
Walk(n, temp, k) ==
    IF k <= 0 THEN temp
    ELSE IF temp = 0 THEN 0
    ELSE IF n[temp].cls # "list" \/ n[temp].tokens = <<>> THEN 0
    ELSE Walk(n, Last(n[temp].tokens), k - 1)

\* add_new_token_array_at: a new empty list at the end of the list `depth - 1`
\* steps below self.tokens; nothing when depth <= 0
add_new_token_array_at(st, depth) ==
    IF st.err \/ depth <= 0 THEN st
    ELSE LET temp == Walk(st.n, root, depth - 1)
             new == Len(st.n) + 1
         IN  IF temp = 0 THEN [st EXCEPT !.err = TRUE]
             ELSE IF st.n[temp].cls # "list" THEN [st EXCEPT !.err = TRUE]
             ELSE [st EXCEPT !.n = [Append(st.n, RawList) EXCEPT
                                        ![temp].tokens = Append(@, new)]]

\* append_token_at_depth: the token goes to the end of the list `depth` steps
\* below self.tokens; with depth < 0 the loop body never runs
append_token_at_depth(st, depth, token) ==
    IF st.err \/ depth < 0 THEN st
    ELSE LET temp == Walk(st.n, root, depth)
         IN  IF temp = 0 THEN [st EXCEPT !.err = TRUE]
             ELSE IF st.n[temp].cls # "list" THEN [st EXCEPT !.err = TRUE]
             ELSE [st EXCEPT !.n[temp].tokens = Append(@, token)]

\* process_list_at_depth: the last list of the list `depth - 1` steps below
\* self.tokens is popped and appended again as a Statement
process_list_at_depth(st, depth) ==
    IF st.err \/ depth <= 0 THEN st
    ELSE LET temp == Walk(st.n, root, depth - 1)
         IN  IF temp = 0 THEN [st EXCEPT !.err = TRUE]
             ELSE IF st.n[temp].cls # "list" \/ st.n[temp].tokens = <<>>
                  THEN [st EXCEPT !.err = TRUE]
             ELSE LET popped == Last(st.n[temp].tokens)
                  IN  IF st.n[popped].cls # "list" THEN [st EXCEPT !.err = TRUE]
                      ELSE [st EXCEPT !.n = TokenList_init(st.n, popped, "Statement")]

SplitterAttrs ==
    [d |-> 0, is_create |-> is_create, in_declare |-> in_declare,
     in_case |-> in_case, infor |-> infor, inwhile |-> inwhile,
     begin_depth |-> begin_depth]

\* process: one turn of `for ttype, value in stream`, the lexer handing over
\* one of the tokens of cands
Feed(cands) ==
    /\ pc = "split"
    /\ \E t \in cands :
         LET s == _change_splitlevel(SplitterAttrs, t.ttype, t.value)
             csl == s.d
             lvl == level + csl
             tk == Len(nodes) + 1
             st0 == [n |-> Append(nodes, Token(t.ttype, t.value)), err |-> FALSE]
             st1 == IF csl = 1
                    THEN append_token_at_depth(add_new_token_array_at(st0, lvl), lvl, tk)
                    ELSE IF csl = 0 - 1
                    THEN process_list_at_depth(
                             append_token_at_depth(st0, lvl + 1, tk), lvl + 1)
                    ELSE append_token_at_depth(st0, lvl, tk)
         IN  /\ stream' = Append(stream, t)
             /\ made' = Append(made, tk)
             /\ level' = lvl
             /\ is_create' = s.is_create
             /\ in_declare' = s.in_declare
             /\ in_case' = s.in_case
             /\ infor' = s.infor
             /\ inwhile' = s.inwhile
             /\ begin_depth' = s.begin_depth
             /\ nodes' = st1.n
             /\ raised' = st1.err
             /\ pc' = IF st1.err THEN "done" ELSE "split"
    /\ UNCHANGED <<root, grouping_on, passno, yielded, leaves0, tree1, result, calls>>

\* process: the stream has ended; one turn of `while self.level > 0`
Drain ==
    /\ pc \in {"split", "drain"}
    /\ level > 0
    /\ LET st1 == process_list_at_depth([n |-> nodes, err |-> FALSE], level)
       IN  /\ nodes' = st1.n
           /\ raised' = st1.err
           /\ pc' = IF st1.err THEN "done" ELSE "drain"
    /\ level' = level - 1
    /\ UNCHANGED <<stream, made, is_create, in_declare, in_case, infor, inwhile,
                   begin_depth, root, grouping_on, passno, yielded, leaves0, tree1,
                   result, calls>>

\* process: the stream has ended and no frame is open;
\* `if self.tokens: yield sql.Statement(self.tokens)`, received by
\* FilterStack.run
Yield ==
    /\ pc \in {"split", "drain"}
    /\ level <= 0
    /\ IF nodes[root].tokens # <<>>
       THEN /\ nodes' = TokenList_init(nodes, root, "Statement")
            /\ yielded' = Append(yielded, root)
            /\ leaves0' = flatten(nodes', root)
            /\ pc' = IF grouping_on THEN "group" ELSE "done"
       ELSE /\ pc' = "done"
            /\ UNCHANGED <<nodes, yielded, leaves0>>
    /\ UNCHANGED <<stream, made, level, is_create, in_declare, in_case, infor,
                   inwhile, begin_depth, root, grouping_on, passno, raised, tree1,
                   result, calls>>

\* grouping.group, called by FilterStack.run on the yielded statement: one
\* turn of `for func in [...]: func(stmt)`; an exception ends the run
group ==
    /\ pc = "group"
    /\ \E st1 \in {func(Passes[passno + 1], [n |-> nodes, err |-> FALSE], root)} :
           /\ nodes' = st1.n
           /\ raised' = st1.err
           /\ pc' = IF st1.err \/ passno + 1 = Len(Passes) THEN "done" ELSE "group"
    /\ passno' = passno + 1
    /\ UNCHANGED <<stream, made, level, is_create, in_declare, in_case, infor,
                   inwhile, begin_depth, root, grouping_on, yielded, leaves0,
                   tree1, result, calls>>

\* a caller hands the statement FilterStack.run returned to grouping.group
\* once more: the passes run again from the first one; tree1 keeps the tree
\* as it was before that call
regroup ==
    /\ pc = "done"
    /\ grouping_on
    /\ ~raised
    /\ passno = Len(Passes)
    /\ tree1 = <<>>
    /\ tree1' = nodes
    /\ passno' = 0
    /\ pc' = "group"
    /\ UNCHANGED <<stream, made, level, is_create, in_declare, in_case, infor,
                   inwhile, begin_depth, nodes, root, grouping_on, raised,
                   yielded, leaves0, result, calls>>

\* a caller calls get_type() on a statement: one it built, or the one
\* FilterStack.run returned
GetType ==
    /\ pc \in {"built", "done"}
    /\ ~raised
    /\ nodes[root].cls = "Statement"
    /\ \E r \in {get_type(nodes, root)} :
           /\ result' = r.val
           /\ raised' = r.err
    /\ pc' = "typed"
    /\ UNCHANGED <<stream, made, level, is_create, in_declare, in_case, infor,
                   inwhile, begin_depth, nodes, root, grouping_on, passno,
                   yielded, leaves0, tree1, calls>>

\* the lists of the tree the caller holds
Lists == {i \in Descendants(nodes, root) : is_group(nodes, i)}

\* a caller calls group_tokens on a list of the tree it holds, with a range
\* start..end of that list
GroupTokens ==
    /\ pc = "built"
    /\ ~raised
    /\ calls < MaxCalls
    /\ \E tl \in Lists, grp_cls \in {"Identifier", "Where"},
          start \in 0..(MaxKids - 1), end \in 0..(MaxKids - 1),
          include_end \in BOOLEAN, extend \in BOOLEAN :
           /\ start <= end
           /\ end < Len(nodes[tl].tokens)
           /\ \E r \in {group_tokens([n |-> nodes, err |-> FALSE], tl, grp_cls,
                                     start, end, include_end, extend)} :
                  /\ nodes' = r.st.n
                  /\ raised' = r.st.err
    /\ tree1' = nodes
    /\ calls' = calls + 1
    /\ UNCHANGED <<stream, made, level, is_create, in_declare, in_case, infor,
                   inwhile, begin_depth, root, grouping_on, pc, passno, yielded,
                   leaves0, result>>

\* a caller pops a child of a list of the tree it holds
Pop ==
    /\ pc = "built"
    /\ ~raised
    /\ calls < MaxCalls
    /\ \E tl \in Lists :
         \E index \in (0 - 1)..(Len(nodes[tl].tokens) - 1) :
           \E st1 \in {pop([n |-> nodes, err |-> FALSE], tl, index)} :
               /\ nodes' = st1.n
               /\ raised' = st1.err
    /\ tree1' = nodes
    /\ calls' = calls + 1
    /\ UNCHANGED <<stream, made, level, is_create, in_declare, in_case, infor,
                   inwhile, begin_depth, root, grouping_on, pc, passno, yielded,
                   leaves0, result>>

\* a caller inserts a new token before a child of a list of the tree
InsertBefore ==
    /\ pc = "built"
    /\ ~raised
    /\ calls < MaxCalls
    /\ \E tl \in Lists :
         \E where \in 0..(Len(nodes[tl].tokens) - 1) :
           \E st1 \in {insert_before([n |-> Append(nodes, Token(T.Name, "y")),
                                      err |-> FALSE], tl, where, Len(nodes) + 1)} :
               /\ nodes' = st1.n
               /\ raised' = st1.err
    /\ tree1' = nodes
    /\ calls' = calls + 1
    /\ UNCHANGED <<stream, made, level, is_create, in_declare, in_case, infor,
                   inwhile, begin_depth, root, grouping_on, pc, passno, yielded,
                   leaves0, result>>

\* a caller inserts a new token after a child of a list of the tree
InsertAfter ==
    /\ pc = "built"
    /\ ~raised
    /\ calls < MaxCalls
    /\ \E tl \in Lists, skip_ws \in BOOLEAN :
         \E where \in 0..(Len(nodes[tl].tokens) - 1) :
           \E st1 \in {insert_after([n |-> Append(nodes, Token(T.Name, "y")),
                                     err |-> FALSE], tl, where, Len(nodes) + 1,
                                    skip_ws)} :
               /\ nodes' = st1.n
               /\ raised' = st1.err
    /\ tree1' = nodes
    /\ calls' = calls + 1
    /\ UNCHANGED <<stream, made, level, is_create, in_declare, in_case, infor,
                   inwhile, begin_depth, root, grouping_on, pc, passno, yielded,
                   leaves0, result>>

\* a caller runs _group_matching for a class of nests on the tree it has
\* built
GroupMatching ==
    /\ pc = "built"
    /\ ~raised
    /\ \E cls \in {"Parenthesis", "Case"} :
         \E st1 \in {_group_matching([n |-> nodes, err |-> FALSE], root, cls)} :
             /\ nodes' = st1.n
             /\ raised' = st1.err
    /\ tree1' = nodes
    /\ pc' = "matched"
    /\ UNCHANGED <<stream, made, level, is_create, in_declare, in_case, infor,
                   inwhile, begin_depth, root, grouping_on, passno, yielded,
                   leaves0, result, calls>>

\* a caller runs one pass of grouping on the tree it has built; pc keeps the
\* name of the pass, tree1 the tree as it was
ApplyPass(name) ==
    /\ pc = "built"
    /\ ~raised
    /\ \E st1 \in {func(name, [n |-> nodes, err |-> FALSE], root)} :
           /\ nodes' = st1.n
           /\ raised' = st1.err
    /\ tree1' = nodes
    /\ pc' = name
    /\ UNCHANGED <<stream, made, level, is_create, in_declare, in_case, infor,
                   inwhile, begin_depth, root, grouping_on, passno, yielded,
                   leaves0, result, calls>>

GroupFor == ApplyPass("group_for")

\* a child handed to a constructor: a token, or a group with its children
Grp(cls, kids) == [cls |-> cls, kids |-> kids]

RECURSIVE Grow(_, _, _)
\* the nodes described by kids, made as the children of the group g
Grow(n, g, kids) ==
    IF kids = <<>> THEN n
    ELSE LET d == kids[1]
             id == Len(n) + 1
             Hang(n1) == Grow([n1 EXCEPT ![g].tokens = Append(@, id)], g, Tail(kids))
         IN  IF "cls" \in DOMAIN d
             THEN Hang(Grow(Append(n, [RawList EXCEPT !.cls = d.cls, !.parent = g]),
                            id, d.kids))
             ELSE Hang(Append(n, [Token(d.ttype, d.value) EXCEPT !.parent = g]))

\* cls(kids) built bottom up by the constructors: TokenList.__init__ sets
\* the parents and takes the text of the group as its value
Tree(cls, kids) ==
    LET n == Grow(<<[RawList EXCEPT !.cls = cls]>>, 1, kids)
    IN  [i \in DOMAIN n |->
            IF is_group(n, i)
            THEN [n[i] EXCEPT !.value = str(n, i), !.normalized = str(n, i)]
            ELSE n[i]]

\* a caller has built the tree itself: nothing was split or grouped
InitBuilt(trees) ==
    /\ stream = <<>>
    /\ made = <<>>
    /\ level = 0
    /\ is_create = FALSE
    /\ in_declare = FALSE
    /\ in_case = 0
    /\ infor = FALSE
    /\ inwhile = FALSE
    /\ begin_depth = 0
    /\ nodes \in trees
    /\ root = 1
    /\ grouping_on = FALSE
    /\ pc = "built"
    /\ passno = 0
    /\ raised = FALSE
    /\ yielded = <<>>
    /\ leaves0 = <<>>
    /\ tree1 = <<>>
    /\ result = ""
    /\ calls = 0

\* StatementSplitter.__init__ / _reset and FilterStack.__init__
InitWith(grp) ==
    /\ stream = <<>>
    /\ made = <<>>
    /\ level = 0
    /\ is_create = FALSE
    /\ in_declare = FALSE
    /\ in_case = 0
    /\ infor = FALSE
    /\ inwhile = FALSE
    /\ begin_depth = 0
    /\ nodes = <<RawList>>
    /\ root = 1
    /\ grouping_on \in grp
    /\ pc = "split"
    /\ passno = 0
    /\ raised = FALSE
    /\ yielded = <<>>
    /\ leaves0 = <<>>
    /\ tree1 = <<>>
    /\ result = ""
    /\ calls = 0

----------------------------------------------------------------------------
(* The lexer's tokens used as input.                                       *)

kCOR == Tok(T.DDL, "CREATE OR REPLACE")
kCREATE == Tok(T.DDL, "CREATE")
kDECLARE == Tok(T.Keyword, "DECLARE")
kBEGIN == Tok(T.Keyword, "BEGIN")
kEND == Tok(T.Keyword, "end")
kCASE == Tok(T.Keyword, "CASE")
kIF == Tok(T.Keyword, "IF")
kENDIF == Tok(T.Keyword, "END IF")
kLOOP == Tok(T.Keyword, "LOOP")
kENDLOOP == Tok(T.Keyword, "END LOOP")
kWHILE == Tok(T.Keyword, "WHILE")
kFORIN == Tok(T.ForIn, "FOR i IN")
kFUNCTION == Tok(T.Keyword, "FUNCTION")
kPROCEDURE == Tok(T.Keyword, "PROCEDURE")
kRETURN == Tok(T.Keyword, "RETURN")
kSELECT == Tok(T.DML, "select")
kUNION == Tok(T.Keyword, "UNION")
kAS == Tok(T.Keyword, "AS")
tWS == Tok(T.Whitespace, " ")
tSEMI == Tok(T.Punctuation, ";")
tLPAR == Tok(T.Punctuation, "(")
tRPAR == Tok(T.Punctuation, ")")
tNAME == Tok(T.Name, "x")
tNAMEF == Tok(T.Name, "f")
tCOMMENT == Tok(T.CommentSingle, "--c")

\* the tokens the splitter tells apart, and two it does not
SplitAlphabet == {kCOR, kBEGIN, kEND, kCASE, kIF, kENDIF, tNAME, tSEMI}

\* top-level statements, each ended by ';' outside every block
SegSelect == <<kSELECT, tWS, tNAME, tSEMI>>
SegCorFunction ==
    <<kCOR, kFUNCTION, tNAMEF, kBEGIN, kIF, tNAME, kENDIF, tSEMI,
      kFORIN, kLOOP, tNAME, tSEMI, kENDLOOP, tSEMI, kEND, tSEMI>>
SegCorDeclare ==
    <<kCOR, kFUNCTION, tNAMEF, kDECLARE, tNAME, tSEMI, kBEGIN,
      kWHILE, tNAME, kLOOP, tNAME, tSEMI, kENDLOOP, tSEMI, kEND, tSEMI>>
\* test_issue193_splitting_function and test_issue194_splitting_function
SegFunction193 ==
    <<kCREATE, kFUNCTION, tNAMEF, kBEGIN, kDECLARE, tNAME, tSEMI,
      kRETURN, tNAME, tSEMI, kEND, tSEMI>>
SegFunction194 ==
    <<kCREATE, kFUNCTION, tNAMEF, kBEGIN, kDECLARE, tNAME, tSEMI,
      kIF, tNAME, tSEMI, kENDIF, tSEMI, kRETURN, tNAME, tSEMI, kEND, tSEMI>>

Segments == {SegSelect, SegCorFunction, SegCorDeclare, SegFunction193, SegFunction194}

RECURSIVE Cat(_)
Cat(ss) == IF ss = <<>> THEN <<>> ELSE ss[1] \o Cat(SubSeq(ss, 2, Len(ss)))

\* the streams of 1..MaxStmts statements
Scripts == UNION {[1..k -> Segments] : k \in 1..MaxStmts}

IsPrefix(a, b) == Len(a) <= Len(b) /\ SubSeq(b, 1, Len(a)) = a

----------------------------------------------------------------------------
(* The splitter alone (FilterStack without enable_grouping), on every      *)
(* stream of at most MaxLen tokens of SplitAlphabet.                       *)

FeedSplit == Feed(IF Len(stream) < MaxLen THEN SplitAlphabet ELSE {})

InitSplit == InitWith({FALSE})

NextSplit == FeedSplit \/ Drain \/ Yield

SpecSplit == InitSplit /\ [][NextSplit]_vars

(* The splitter alone on streams of whole statements.                      *)

FeedScript ==
    Feed({t \in UNION {Range(sg) : sg \in Segments} :
            \E sc \in Scripts : IsPrefix(Append(stream, t), Cat(sc))})

\* the stream ends only where a statement ends
ScriptEnded == \E sc \in Scripts : stream = Cat(sc)

NextScript == FeedScript \/ (ScriptEnded /\ Drain) \/ (ScriptEnded /\ Yield)

SpecScript == InitSplit /\ [][NextScript]_vars

----------------------------------------------------------------------------
(* The whole parse: FilterStack.run with grouping enabled, on streams over *)
(* one of a few small alphabets.                                           *)

kPACKAGE == Tok(T.Keyword, "PACKAGE")

NestAlphabet == {tLPAR, tRPAR, tNAME, tCOMMENT, kBEGIN, kEND}
HeadingAlphabet == {kUNION, kFUNCTION, kPROCEDURE, tNAMEF, kBEGIN, kEND}
PackageAlphabet == {kCOR, kPACKAGE, kAS, tNAME, kEND}
ParseAlphabets == {NestAlphabet, HeadingAlphabet, PackageAlphabet}

\* the next token of a stream that stays within one alphabet
FeedParse ==
    Feed(IF Len(stream) < MaxLen
         THEN UNION {A \in ParseAlphabets : Range(stream) \subseteq A}
         ELSE {})

InitParse == InitWith({TRUE})

NextParse == FeedParse \/ Drain \/ Yield \/ group

SpecParse == InitParse /\ [][NextParse]_vars

\* the parse followed by a second call of grouping.group on its result
NextRegroup == NextParse \/ regroup

SpecRegroup == InitParse /\ [][NextRegroup]_vars

----------------------------------------------------------------------------
(* Statement.get_type on every statement of at most MaxKids children of    *)
(* TypeKids.                                                               *)

kWITH == Tok(T.CTE, "with")
kINSERT == Tok(T.DML, "insert")

\* every sequence of at most k members of S
SeqsUpTo(S, k) == UNION {[1..m -> S] : m \in 0..k}

TypeKids ==
    {tWS, tCOMMENT, kSELECT, kINSERT, kCREATE, kWITH, tNAME,
     Grp("Comment", <<tCOMMENT>>), Grp("Identifier", <<tNAME>>),
     Grp("IdentifierList", <<tNAME>>)}

InitType == InitBuilt({Tree("Statement", kids) : kids \in SeqsUpTo(TypeKids, MaxKids)})

SpecType == InitType /\ [][GetType]_vars

----------------------------------------------------------------------------
(* get_type on the result of the parse: the statements of                  *)
(* test_issue227_gettype_cte in short, and every stream of at most MaxLen  *)
(* tokens of TypedAlphabet.                                                *)

SelectStmt == <<kSELECT, tWS, tNAME, tSEMI>>
WithSelectStmt ==
    <<kWITH, tWS, tNAME, tWS, kAS, tWS, tLPAR, kSELECT, tWS, tNAME, tRPAR, tWS,
      kSELECT, tWS, tNAME, tSEMI>>
WithInsertStmt ==
    <<kWITH, tWS, tNAME, tWS, kAS, tWS, tLPAR, kSELECT, tWS, tNAME, tRPAR, tWS,
      kINSERT, tWS, tNAME, tWS, kSELECT, tWS, tNAME, tSEMI>>
TypedStmts == {SelectStmt, WithSelectStmt, WithInsertStmt}

TypedAlphabet == {kSELECT, kINSERT, tNAME, tSEMI, tWS, tCOMMENT, kBEGIN}

FeedTyped ==
    Feed({t \in UNION {Range(s) : s \in TypedStmts} :
              \E s \in TypedStmts : IsPrefix(Append(stream, t), s)}
         \cup (IF Len(stream) < MaxLen /\ Range(stream) \subseteq TypedAlphabet
               THEN TypedAlphabet ELSE {}))

\* FilterStack.run with grouping, then get_type on the statement
NextTyped == FeedTyped \/ Drain \/ Yield \/ group \/ GetType

SpecTyped == InitParse /\ [][NextTyped]_vars

----------------------------------------------------------------------------
(* WHERE inside parentheses: `(where 1)` of test_issue9, and every stream  *)
(* of at most MaxLen tokens of WhereAlphabet.                              *)

kWHERE == Tok(T.Keyword, "where")
tINT == Tok(T.Integer, "1")

\* the next token of a stream that stays within one of the alphabets, or
\* that goes on towards one of the statements stmts
FeedIn(alphabets, stmts) ==
    Feed({t \in UNION {Range(s) : s \in stmts} :
              \E s \in stmts : IsPrefix(Append(stream, t), s)}
         \cup (IF Len(stream) < MaxLen
               THEN UNION {A \in alphabets : Range(stream) \subseteq A}
               ELSE {}))

WhereStmt == <<tLPAR, kWHERE, tWS, tINT, tRPAR>>

WhereAlphabet == {tLPAR, tRPAR, kWHERE, tNAME, tWS, tCOMMENT, kBEGIN}

NextWhere == FeedIn({WhereAlphabet}, {WhereStmt}) \/ Drain \/ Yield \/ group

SpecWhere == InitParse /\ [][NextWhere]_vars

----------------------------------------------------------------------------
(* `CREATE INDEX CONCURRENTLY myindex ON mytable(col1);` of test_issue322, *)
(* and every stream of at most MaxLen tokens of IndexAlphabet.             *)

kINDEX == Tok(T.Keyword, "INDEX")

IndexStmt ==
    <<kCREATE, tWS, kINDEX, tWS, Tok(T.Keyword, "CONCURRENTLY"), tWS,
      Tok(T.Name, "myindex"), tWS, Tok(T.Keyword, "ON"), tWS,
      Tok(T.Name, "mytable"), tLPAR, Tok(T.Name, "col1"), tRPAR, tSEMI>>

IndexAlphabet == {kCREATE, kINDEX, tWS, tNAME, tSEMI, kBEGIN}

NextIndex == FeedIn({IndexAlphabet}, {IndexStmt}) \/ Drain \/ Yield \/ group

SpecIndex == InitParse /\ [][NextIndex]_vars

----------------------------------------------------------------------------
(* group_tokens called on trees a caller has built: lists of at most       *)
(* MaxKids children, some of them groups already.                          *)

ListKids ==
    {tNAME, tWS, Grp("Identifier", <<tNAME>>), Grp("Where", <<kWHERE, tNAME>>)}

InitList == InitBuilt({Tree("Statement", kids) : kids \in SeqsUpTo(ListKids, MaxKids)})

\* one call of group_tokens on each tree
GroupTokensOnce == calls = 0 /\ GroupTokens

SpecGroupTokens == InitList /\ [][GroupTokensOnce]_vars

\* any sequence of at most MaxCalls calls of the mutators of a TokenList
NextMutate == GroupTokens \/ Pop \/ InsertBefore \/ InsertAfter

SpecMutate == InitList /\ [][NextMutate]_vars

----------------------------------------------------------------------------
(* _group_matching on lists of opening and closing tokens in any order,    *)
(* balanced or not, with a group of another class among them.              *)

MatchKids ==
    {tLPAR, tRPAR, kCASE, kEND, tWS, Grp("Where", <<tRPAR, tLPAR, tRPAR>>)}

InitMatch ==
    InitBuilt({Tree("Statement", kids) : kids \in SeqsUpTo(MatchKids, MaxKids + 2)})

SpecMatch == InitMatch /\ [][GroupMatching]_vars

----------------------------------------------------------------------------
(* The splitter on keywords: loops in the body of CREATE OR REPLACE, and   *)
(* closing keywords with nothing open.  Every stream of at most MaxLen     *)
(* tokens of KeywordAlphabet, and the streams LoopStmts.                   *)

kENDWHILE == Tok(T.Keyword, "END WHILE")
kENDCASE == Tok(T.Keyword, "END CASE")

KeywordAlphabet ==
    {kCOR, kBEGIN, kEND, kCASE, kENDCASE, kWHILE, kLOOP, kENDLOOP, tNAME}

LoopStmts ==
    {<<kCOR, kBEGIN, kWHILE, tNAME, kENDWHILE, kLOOP, tNAME, kENDLOOP>>,
     <<kCOR, kBEGIN, kFORIN, kLOOP, kWHILE, kLOOP, tNAME, kENDLOOP, kENDLOOP>>,
     <<kCOR, kBEGIN, kLOOP, kFORIN, kLOOP, kENDLOOP, kENDLOOP>>}

NextKeywords == FeedIn({KeywordAlphabet}, LoopStmts) \/ Drain \/ Yield

SpecKeywords == InitSplit /\ [][NextKeywords]_vars

----------------------------------------------------------------------------
(* SELECT statements: closed by ';', by UNION, or by the ')' of a subquery. *)

SelectAlphabet == {kSELECT, tSEMI, kUNION, tWS, tNAME, tCOMMENT}

SelectStmts ==
    {<<tLPAR, kSELECT, tWS, tNAME, tRPAR>>,
     <<tLPAR, kSELECT, tNAME, tSEMI, kSELECT, tNAME, tWS, tRPAR>>,
     <<kSELECT, tLPAR, kSELECT, tNAME, tRPAR, tWS, kUNION, kSELECT, tNAME, tSEMI>>,
     <<kBEGIN, kSELECT, tNAME, tSEMI, kEND>>}

NextSelect == FeedIn({SelectAlphabet}, SelectStmts) \/ Drain \/ Yield \/ group

SpecSelect == InitParse /\ [][NextSelect]_vars

----------------------------------------------------------------------------
(* group_for on lists of loop keywords in any order.                       *)

ForKids == {kFORIN, kLOOP, kENDLOOP, tNAME, tWS}

InitFor ==
    InitBuilt({Tree("Statement", kids) : kids \in SeqsUpTo(ForKids, MaxKids + 3)})

SpecFor == InitFor /\ [][GroupFor]_vars

----------------------------------------------------------------------------
(* Function headings: FUNCTION, a name, parameters or none, and a closer.  *)

FunctionAlphabet == {kFUNCTION, tNAMEF, kAS, tSEMI, tWS, tNAME}

FunctionStmts ==
    {<<kFUNCTION, tWS, tNAMEF, tLPAR, tNAME, tRPAR, tWS, kAS, tWS, tNAME, tSEMI>>,
     <<kFUNCTION, tWS, tNAMEF, tLPAR, tNAME, tRPAR, tWS, kRETURN, tWS, tNAME, tSEMI>>,
     <<kBEGIN, kFUNCTION, tWS, tNAMEF, tSEMI, kEND>>}

NextFunction == FeedIn({FunctionAlphabet}, FunctionStmts) \/ Drain \/ Yield \/ group

SpecFunction == InitParse /\ [][NextFunction]_vars

----------------------------------------------------------------------------
(* Blocks: a heading, IS or AS, a Begin group and what follows it.         *)

BlockPasses == {"group_function_block", "group_procedure_block"}

GroupBlock == \E name \in BlockPasses : ApplyPass(name)

BlockKids ==
    {Grp("FunctionHeading", <<kFUNCTION, tNAMEF>>),
     Grp("ProcedureHeading", <<kPROCEDURE, tNAMEF>>),
     Grp("Begin", <<kBEGIN, kEND>>), kAS, tNAME, tSEMI, tWS}

InitBlock ==
    InitBuilt({Tree("Statement", kids) : kids \in SeqsUpTo(BlockKids, MaxKids + 2)})

SpecBlock == InitBlock /\ [][GroupBlock]_vars

----------------------------------------------------------------------------
(* The parameters of a call: f( ... ) with names, numbers and commas.      *)

tCOMMA == Tok(T.Punctuation, ",")

ParamKids == {tNAME, tINT, tCOMMA, tWS}

\* f(inner) as group_functions leaves it
Call(inner) ==
    Grp("Function", <<tNAMEF, Grp("Parenthesis", <<tLPAR>> \o inner \o <<tRPAR>>)>>)

InitParams ==
    InitBuilt({Tree("Statement", <<Call(inner)>>) :
                   inner \in SeqsUpTo(ParamKids, MaxKids + 2)})

GroupFunctionParams == ApplyPass("group_function_params")

SpecParams == InitParams /\ [][GroupFunctionParams]_vars

----------------------------------------------------------------------------
(* Calls in a parsed stream: f(), f(x,), f(x, x).                          *)

CallAlphabet == {tNAMEF, tLPAR, tRPAR, tCOMMA, tNAME}

CallStmts ==
    {<<tNAMEF, tLPAR, tNAME, tCOMMA, tWS, tNAME, tRPAR, tSEMI>>,
     <<kDECLARE, tNAME, tSEMI, kBEGIN, tNAMEF, tLPAR, tRPAR, tSEMI, kEND>>}

NextCall == FeedIn({CallAlphabet}, CallStmts) \/ Drain \/ Yield \/ group

SpecCall == InitParse /\ [][NextCall]_vars

----------------------------------------------------------------------------
(* The two flatter passes on trees with single-child wrappers.             *)

FlatterPasses == <<"flatter_statement_class", "flatter_identifier_class">>

\* a chain of wrappers, wrappers in and around groups with more children
WrapKids ==
    {tNAME, tWS,
     Grp("Identifier", <<tNAME>>),
     Grp("Identifier", <<Grp("Identifier", <<tNAME>>)>>),
     Grp("Identifier", <<tNAME, Grp("Identifier", <<tNAME>>)>>),
     Grp("Identifier", <<Grp("Statement", <<tNAME>>)>>),
     Grp("Statement", <<tNAME>>),
     Grp("Statement", <<Grp("Identifier", <<tNAME>>)>>),
     Grp("Statement", <<Grp("Statement", <<tNAME>>), tWS>>),
     Grp("Parenthesis", <<tLPAR, Grp("Identifier", <<Grp("Statement", <<tNAME>>)>>), tRPAR>>)}

InitWrapped ==
    InitBuilt({Tree("Statement", kids) : kids \in SeqsUpTo(WrapKids, MaxKids)})

\* flatter_statement_class, then flatter_identifier_class, as group calls them
FlatterPass ==
    /\ pc = "built"
    /\ ~raised
    /\ passno < Len(FlatterPasses)
    /\ \E st1 \in {func(FlatterPasses[passno + 1], [n |-> nodes, err |-> FALSE], root)} :
           /\ nodes' = st1.n
           /\ raised' = st1.err
    /\ passno' = passno + 1
    /\ tree1' = IF passno = 0 THEN nodes ELSE tree1
    /\ UNCHANGED <<stream, made, level, is_create, in_declare, in_case, infor,
                   inwhile, begin_depth, root, grouping_on, pc, yielded,
                   leaves0, result, calls>>

SpecFlatter == InitWrapped /\ [][FlatterPass]_vars

----------------------------------------------------------------------------
(* What the properties below speak about.                                  *)

\* the nodes of the trees yielded so far
TreeNodes == UNION {Descendants(nodes, yielded[k]) : k \in DOMAIN yielded}

\* the places (group, position) where node x is a child
Places(x) ==
    {<<g, k>> \in TreeNodes \X (1..Len(nodes)) :
        k \in DOMAIN nodes[g].tokens /\ nodes[g].tokens[k] = x}

\* the leaves of the yielded statements, in order
YieldedLeaves == FlattenSeq(nodes, yielded)

RECURSIVE Join(_)
\* the concatenation of a sequence of strings
Join(ss) == IF ss = <<>> THEN "" ELSE ss[1] \o Join(SubSeq(ss, 2, Len(ss)))

Values(ids) == [k \in DOMAIN ids |-> nodes[ids[k]].value]
ValuesOf(toks) == [k \in DOMAIN toks |-> toks[k].value]

\* s occurs in t as a run of consecutive elements
IsInfix(s, t) ==
    \E a \in 0..Len(t) : a + Len(s) <= Len(t) /\ SubSeq(t, a + 1, a + Len(s)) = s

----------------------------------------------------------------------------
(* The splitter.                                                           *)

\* C1: round trip of a parse.  Once FilterStack.run has split the stream
\* and grouped every yielded Statement, the values of the flattened leaves
\* of the yielded Statements, concatenated in order, are the concatenation
\* of the input token values.
C1_RoundTrip ==
    (pc = "done" /\ ~raised) => Join(Values(YieldedLeaves)) = Join(ValuesOf(stream))

\* C2: split + join.  When the splitter has finished (no grouping), every
\* input token is among the flattened leaves of the yielded Statements,
\* exactly once and in input order, whatever the balance of openers and
\* closers.
C2_NoTokenDiscarded ==
    pc = "done" => YieldedLeaves = made

\* C3: one Statement per top-level statement.  A stream of N SELECT
\* statements, each ended by ';' at depth 0, yields exactly N Statements,
\* the k-th holding the tokens of the k-th statement.
C3_OneStatementPerStatement ==
    pc = "done" =>
      \A sc \in Scripts :
        (stream = Cat(sc) /\ \A k \in DOMAIN sc : sc[k] = SegSelect) =>
          /\ Len(yielded) = Len(sc)
          /\ \A k \in DOMAIN sc :
               Values(flatten(nodes, yielded[k])) = ValuesOf(sc[k])

\* C4: a CREATE OR REPLACE FUNCTION ... BEGIN ... END; with nested IF,
\* FOR/WHILE loops or a DECLARE is one top-level Statement, and the
\* SELECT ...; after it is the next, separate top-level Statement.
C4_CreateOrReplaceThenSelect ==
    pc = "done" =>
      \A f \in {SegCorFunction, SegCorDeclare} :
        stream = f \o SegSelect =>
          /\ Len(yielded) = 2
          /\ Values(flatten(nodes, yielded[1])) = ValuesOf(f)
          /\ Values(flatten(nodes, yielded[2])) = ValuesOf(SegSelect)

\* C5: a plain CREATE FUNCTION ... BEGIN ... END; (is_create stays false)
\* with a DECLARE line and optionally an IF ... END IF;, followed by a
\* SELECT ...;, splits into exactly 2 statements, the second being the
\* SELECT with all its tokens.
C5_PlainFunctionThenSelect ==
    pc = "done" =>
      \A f \in {SegFunction193, SegFunction194} :
        stream = f \o SegSelect =>
          /\ Len(yielded) = 2
          /\ Values(flatten(nodes, yielded[2])) = ValuesOf(SegSelect)

\* C6: a closer at depth 0.  The depth counter is never negative, every
\* token fed so far (the extra closer and all later ones) is in a frame,
\* and process has not raised.
C6_CloserAtDepthZero ==
    /\ level >= 0
    /\ ~raised
    /\ pc = "split" => FlattenSeq(nodes, <<root>>) = made

----------------------------------------------------------------------------
(* The grouping engine.                                                    *)

\* C7: grouping.group is total: no pass raises, whatever the statement.
C7_GroupingTotal ==
    ~(raised /\ passno > 0)

\* C8: parent consistency.  After the split and after every grouping pass,
\* every child of a TokenList of the tree has that TokenList as parent, and
\* every node but the root is a child at exactly one place.
C8_ParentConsistency ==
    pc \in {"group", "done"} =>
      /\ \A g \in TreeNodes :
           \A k \in DOMAIN nodes[g].tokens : nodes[nodes[g].tokens[k]].parent = g
      /\ \A x \in TreeNodes : x \notin Range(yielded) => Cardinality(Places(x)) = 1

\* C8 happens: all passes have run on a statement in which group_package
\* regrouped the parent and built a Package
C8_Witness ==
    /\ pc = "done" /\ ~raised /\ passno = Len(Passes)
    /\ \E g \in TreeNodes : nodes[g].cls = "Package"

\* C9: leaves are preserved.  After each grouping pass the flattened leaves
\* of the Statement are the ones it had when it was yielded, with their
\* values, and every TokenList of the tree covers one run of consecutive
\* leaves.
C9_LeavesPreserved ==
    pc \in {"group", "done"} =>
      /\ YieldedLeaves = leaves0
      /\ \A k \in DOMAIN leaves0 :
           \E j \in DOMAIN made :
             made[j] = leaves0[k] /\ nodes[leaves0[k]].value = stream[j].value
      /\ \A g \in TreeNodes : IsInfix(flatten(nodes, g), leaves0)

\* C9 happens: all passes have run and the flatter pass has replaced the
\* Statement around a BEGIN ... END by the Begin group
C9_Witness ==
    /\ pc = "done" /\ ~raised /\ passno = Len(Passes)
    /\ \E k \in DOMAIN nodes[root].tokens :
         /\ nodes[nodes[root].tokens[k]].cls = "Begin"
         /\ Len(nodes[nodes[root].tokens[k]].tokens) > 2

\* the first child of g matches a pattern of opens, the last one of closes
Nest(g, opens, closes) ==
    /\ nodes[g].tokens # <<>>
    /\ MatchAny(nodes, nodes[g].tokens[1], opens)
    /\ MatchAny(nodes, Last(nodes[g].tokens), closes)

\* C10: balanced nests.  In the tree grouping.group returns, every
\* Parenthesis, SquareBrackets, Case, If, Begin and For has its opening
\* token as first child and its closing token as last child.
C10_BalancedNests ==
    (pc = "done" /\ ~raised) =>
      \A g \in TreeNodes :
        /\ nodes[g].cls \in {"Parenthesis", "SquareBrackets", "Case", "If", "Begin"}
             => Nest(g, M_OPEN(nodes[g].cls), M_CLOSE(nodes[g].cls))
        /\ nodes[g].cls = "For" => Nest(g, Range(For_M_OPEN), M_CLOSE("For"))


RECURSIVE Shape(_, _)
\* the shape of the tree below id: the class of every group and its children
\* in order, the type and value of every leaf
Shape(n, id) ==
    IF n[id].cls = "Token" THEN <<"Token", n[id].ttype, n[id].value>>
    ELSE <<n[id].cls, [k \in 1..Len(n[id].tokens) |-> Shape(n, n[id].tokens[k])]>>

\* C11: a second run of grouping.group on the tree the first run returned
\* ends without an exception and leaves the shape of the tree as it was
C11_IdempotentGrouping ==
    (pc = "done" /\ tree1 # <<>>) =>
        ~raised /\ Shape(nodes, root) = Shape(tree1, root)

\* the position (from 1) of the first child of the statement after position
\* i that passes the test Keep, 0 if there is none
FirstAfter(i, Keep(_)) ==
    LET kids == nodes[root].tokens
        S == {k \in DOMAIN kids : k > i /\ Keep(kids[k])}
    IN  IF S = {} THEN 0 ELSE MinOf(S)

\* what get_type is to return for the statement at root
TypeExpected ==
    LET kids == nodes[root].tokens
        NoWs(id) == ~InTT(nodes[id].ttype, T.Whitespace)
        Code(id) == NoWs(id) /\ ~InTT(nodes[id].ttype, T.Comment)
                             /\ nodes[id].cls # "Comment"
        f == FirstAfter(0, Code)
        i == FirstAfter(f, NoWs)
        d == FirstAfter(i, NoWs)
    IN  IF f = 0 THEN "UNKNOWN"
        ELSE IF nodes[kids[f]].ttype \in {T.DML, T.DDL} THEN Upper(nodes[kids[f]].value)
        ELSE IF /\ nodes[kids[f]].ttype = T.CTE
                /\ i # 0
                /\ nodes[kids[i]].cls \in {"Identifier", "IdentifierList"}
                /\ d # 0
                /\ nodes[kids[d]].ttype = T.DML
        THEN Upper(nodes[kids[d]].value)
        ELSE "UNKNOWN"

\* C12: get_type returns for every sequence of children and never raises:
\* UNKNOWN without a child that is code, the upper-cased first DML or DDL
\* keyword, the DML keyword after WITH and its Identifier or IdentifierList,
\* and UNKNOWN otherwise, also when the Identifier after WITH is the last child
C12_GetTypeTotal ==
    pc = "typed" => ~raised /\ result = TypeExpected

\* the cases of C12 in which get_type does return
C12_ReturnsExpected ==
    (pc = "typed" /\ ~raised) => result = TypeExpected

RECURSIVE TopDML(_, _, _)
\* the upper-cased first DML keyword of s from position k on that stands
\* outside every parenthesis, "" if there is none
TopDML(s, k, depth) ==
    IF k > Len(s) THEN ""
    ELSE IF s[k] = tLPAR THEN TopDML(s, k + 1, depth + 1)
    ELSE IF s[k] = tRPAR THEN TopDML(s, k + 1, depth - 1)
    ELSE IF s[k].ttype = T.DML /\ depth = 0 THEN Upper(s[k].value)
    ELSE TopDML(s, k + 1, depth)

\* the leading DML keyword of a statement: its first token that is code, or
\* for a WITH statement the first DML keyword outside the parentheses
LeadingDML(s) ==
    LET code == {k \in DOMAIN s : ~InTT(s[k].ttype, T.Whitespace)
                                  /\ ~InTT(s[k].ttype, T.Comment)}
        f == MinOf(code)
    IN  IF code = {} THEN ""
        ELSE IF s[f].ttype = T.DML THEN Upper(s[f].value)
        ELSE IF s[f].ttype = T.CTE THEN TopDML(s, f + 1, 0)
        ELSE ""

\* C13: after the split and the whole grouping pipeline get_type() of a
\* statement that begins with a DML keyword, or with WITH and its DML
\* keyword, is that keyword: the Select and DML_Operation groups do not
\* change the type
C13_TypeAfterGrouping ==
    (pc = "typed" /\ LeadingDML(stream) # "")
        => ~raised /\ result = LeadingDML(stream)

\* the position (from 1) of the pass called name in the list group runs
PassNo(name) == CHOOSE k \in DOMAIN Passes : Passes[k] = name

\* the Parenthesis groups of the tree that hold a Where group as a child
WhereParens ==
    {p \in TreeNodes : /\ nodes[p].cls = "Parenthesis"
                       /\ \E k \in DOMAIN nodes[p].tokens :
                              nodes[nodes[p].tokens[k]].cls = "Where"}

\* C14: group_where leaves the closing ')' of a Parenthesis out of the Where
\* group.  When the pass has run, a Where group made in a Parenthesis (no
\* closing keyword follows) is its last child but one and ')' its last
\* child; the parse of `(where 1)` is a Statement of one child, a
\* Parenthesis of 3 children.
C14_WhereLeavesCloser ==
    /\ (passno = PassNo("group_where") /\ ~raised) =>
         \A p \in WhereParens :
           LET kids == nodes[p].tokens
           IN  /\ nodes[kids[Len(kids) - 1]].cls = "Where"
               /\ MatchAny(nodes, Last(kids), M_CLOSE("Parenthesis"))
    /\ (pc = "done" /\ stream = WhereStmt) =>
         /\ ~raised
         /\ Len(nodes[root].tokens) = 1
         /\ nodes[nodes[root].tokens[1]].cls = "Parenthesis"
         /\ Len(nodes[nodes[root].tokens[1]].tokens) = 3

\* group_where has made a Where group in a Parenthesis, and the parse of
\* `(where 1)` has ended
C14_Witness ==
    \/ passno = PassNo("group_where") /\ ~raised /\ WhereParens # {}
    \/ pc = "done" /\ stream = WhereStmt /\ passno = Len(Passes)

\* C15: in the tree the whole pipeline returns, a Name that stands alone
\* among the children of the statement is an Identifier group; the parse of
\* `CREATE INDEX CONCURRENTLY myindex ON mytable(col1);` has 12 children,
\* child 4 the Keyword CONCURRENTLY and child 6 an Identifier of value
\* 'myindex'.
C15_NameIsIdentifier ==
    (pc = "done" /\ passno = Len(Passes)) =>
        LET kids == nodes[root].tokens
        IN  /\ ~raised
            /\ \A k \in DOMAIN kids :
                   ~(nodes[kids[k]].cls = "Token"
                     /\ InTT(nodes[kids[k]].ttype, T.Name))
            /\ stream = IndexStmt =>
                   /\ Len(kids) = 12
                   /\ nodes[PyAt(kids, 4)].ttype = T.Keyword
                   /\ nodes[PyAt(kids, 4)].value = "CONCURRENTLY"
                   /\ nodes[PyAt(kids, 6)].cls = "Identifier"
                   /\ nodes[PyAt(kids, 6)].value = "myindex"

\* what the contract of group_tokens says of the tree n2 left by a call on
\* the list tl of the tree n
GroupTokensContract(n, n2, tl, grp_cls, start, end, include_end, extend) ==
    LET toks == n[tl].tokens
        upto == IF include_end THEN end + 1 ELSE end
        joins == extend /\ n[toks[start + 1]].cls = grp_cls
        from == IF joins THEN start + 2 ELSE start + 1
        moved == SubSeq(toks, from, upto)
        grp == IF joins THEN toks[start + 1] ELSE Len(n) + 1
    IN  /\ Len(n2) = (IF joins THEN Len(n) ELSE Len(n) + 1)
        /\ n2[grp].cls = grp_cls
        /\ n2[grp].tokens = (IF joins THEN n[grp].tokens ELSE <<>>) \o moved
        /\ n2[tl].tokens = SubSeq(toks, 1, from - 1)
                           \o (IF joins THEN <<>> ELSE <<grp>>)
                           \o SubSeq(toks, Max(upto, from - 1) + 1, Len(toks))
        /\ \A i \in Range(moved) :
               /\ n2[i].parent = grp
               /\ [n2[i] EXCEPT !.parent = n[i].parent] = n[i]
        /\ \A i \in DOMAIN n \ ({tl, grp} \cup Range(moved)) : n2[i] = n[i]

\* C16: group_tokens(variant, start, end, include_end, extend) replaces the
\* children start..end of the list (end left out when include_end is false)
\* by one group of class variant that holds them in order; with extend and
\* a child at start that is of class variant already, it makes no group and
\* appends the children after start to that child; every moved child has
\* the resulting group as parent and the rest of the list is unchanged.
C16_GroupTokensContract ==
    [][\A tl \in DOMAIN nodes, grp_cls \in {"Identifier", "Where"},
          start \in 0..(MaxKids - 1), end \in 0..(MaxKids - 1),
          include_end \in BOOLEAN, extend \in BOOLEAN :
           (/\ pc = "built" /\ calls' = calls + 1
            /\ is_group(nodes, tl)
            /\ start <= end /\ end < Len(nodes[tl].tokens)
            /\ nodes' = group_tokens([n |-> nodes, err |-> FALSE], tl, grp_cls,
                                     start, end, include_end, extend).st.n)
           => /\ ~raised'
              /\ GroupTokensContract(nodes, nodes', tl, grp_cls, start, end,
                                     include_end, extend)]_vars

\* group_tokens has extended a group that was in the list with two children
\* of the list
C16_Witness ==
    /\ calls > 0
    /\ Len(nodes) = Len(tree1)
    /\ \E g \in DOMAIN nodes : Len(nodes[g].tokens) = Len(tree1[g].tokens) + 2

\* the positions of the list g of the tree n whose child is a token that
\* matches one of pats
Direct(n, g, pats) ==
    {k \in DOMAIN n[g].tokens : MatchAny(n, n[g].tokens[k], pats)}

\* what is said of the tree n2 that _group_matching(root, cls) leaves of
\* the tree n: the leaves are those of n; a group it has made begins with
\* an opening token, ends with a closing token and has neither as a child
\* in between; in a list that was there before, no opening token is left
\* with a closing token after it
MatchingContract(n, n2, cls) ==
    /\ flatten(n2, root) = flatten(n, root)
    /\ \A g \in Descendants(n2, root) :
         IF g > Len(n)
         THEN /\ n2[g].cls = cls
              /\ Len(n2[g].tokens) >= 2
              /\ Direct(n2, g, M_OPEN(cls)) = {1}
              /\ Direct(n2, g, M_CLOSE(cls)) = {Len(n2[g].tokens)}
         ELSE is_group(n2, g) =>
                \A i \in Direct(n2, g, M_OPEN(cls)) :
                  \A j \in Direct(n2, g, M_CLOSE(cls)) : j < i

\* C17: _group_matching tolerates unbalanced input.  A closing token with no
\* open one pending is passed over and the pairs after it are grouped all
\* the same, an opening token with no closing one stays a child of the
\* list, and every group made pairs a closing token with the nearest
\* unmatched opening token before it.
C17_MatchingTolerant ==
    [][\A cls \in {"Parenthesis", "Case"} :
           (/\ pc = "built" /\ pc' = "matched"
            /\ nodes' = _group_matching([n |-> nodes, err |-> FALSE], root, cls).n)
           => ~raised' /\ MatchingContract(nodes, nodes', cls)]_vars

\* _group_matching has passed over a closing token, made a group of a pair
\* after it and left an opening token without a closing one in the list
C17_Witness ==
    /\ pc = "matched"
    /\ \E i, j, k \in DOMAIN nodes[root].tokens :
         /\ i < j /\ j < k
         /\ MatchAny(nodes, nodes[root].tokens[i], M_CLOSE("Parenthesis"))
         /\ nodes[nodes[root].tokens[j]].cls = "Parenthesis"
         /\ nodes[root].tokens[j] > Len(tree1)
         /\ MatchAny(nodes, nodes[root].tokens[k], M_OPEN("Parenthesis"))

\* C18: with grouping not enabled, run yields every statement as a flat list
\* of tokens: no child of a yielded Statement is a group, whatever blocks
\* (BEGIN/END, CASE, CREATE OR REPLACE) the input has.
C18_FlatWithoutGrouping ==
    ~grouping_on =>
        \A k \in DOMAIN yielded :
            /\ nodes[yielded[k]].cls = "Statement"
            /\ \A j \in DOMAIN nodes[yielded[k]].tokens :
                   ~is_group(nodes, nodes[yielded[k]].tokens[j])

\* C19: after any sequence of calls of group_tokens, insert_before,
\* insert_after and pop on the lists of a tree, the value of every group of
\* the tree is the concatenation of the values of its flattened leaves.
C19_ValueIsLeaves ==
    (pc = "built" /\ ~raised) =>
        \A g \in Lists : nodes[g].value = Concat(nodes, flatten(nodes, g))

\* the step hands an END keyword to the splitter
FedEND ==
    /\ Len(stream') = Len(stream) + 1
    /\ InTT(Last(stream').ttype, T.Keyword)
    /\ Last(stream').value \in {"end", "END"}

RECURSIVE AfterTokens(_, _)
\* the attributes of the splitter and the level after the tokens toks, from
\* the attributes and level in r
AfterTokens(r, toks) ==
    IF toks = <<>> THEN r
    ELSE LET s == _change_splitlevel(r.s, toks[1].ttype, toks[1].value)
         IN  AfterTokens([s |-> [s EXCEPT !.d = 0], level |-> r.level + s.d],
                         Tail(toks))

\* the splitter after _reset
Fresh ==
    [s |-> [d |-> 0, is_create |-> FALSE, in_declare |-> FALSE, in_case |-> 0,
            infor |-> FALSE, inwhile |-> FALSE, begin_depth |-> 0],
     level |-> 0]

RECURSIVE IsLoopBody(_)
RECURSIVE IsLoopForm(_)
\* one loop form: FOR..IN LOOP .. END LOOP, WHILE LOOP .. END LOOP,
\* LOOP .. END LOOP around well-nested forms, or WHILE .. END WHILE around
\* tokens that are no keywords
IsLoopForm(s) ==
    /\ Len(s) >= 2
    /\ \/ /\ Len(s) >= 3
          /\ s[1] \in {kFORIN, kWHILE} /\ s[2] = kLOOP /\ Last(s) = kENDLOOP
          /\ IsLoopBody(SubSeq(s, 3, Len(s) - 1))
       \/ /\ s[1] = kLOOP /\ Last(s) = kENDLOOP
          /\ IsLoopBody(SubSeq(s, 2, Len(s) - 1))
       \/ /\ s[1] = kWHILE /\ Last(s) = kENDWHILE
          /\ \A k \in 2..(Len(s) - 1) : s[k] = tNAME

\* a well-nested sequence of loop forms and tokens that are no keywords
IsLoopBody(s) ==
    \/ s = <<>>
    \/ s[1] = tNAME /\ IsLoopBody(Tail(s))
    \/ \E k \in 2..Len(s) :
           IsLoopForm(SubSeq(s, 1, k)) /\ IsLoopBody(SubSeq(s, k + 1, Len(s)))

\* C21: loops are depth-neutral.  In the body of CREATE OR REPLACE with
\* begin_depth > 0, after a well-nested sequence of loop forms, the level
\* right after the closer of a form is the level right before its opener.
C21_LoopsDepthNeutral ==
    \A k \in 2..Len(stream) :
        LET before == AfterTokens(Fresh, SubSeq(stream, 1, k))
        IN  (/\ pc = "split"
             /\ stream[1] = kCOR /\ stream[2] = kBEGIN
             /\ IsLoopBody(SubSeq(stream, 3, k))
             /\ IsLoopForm(SubSeq(stream, k + 1, Len(stream)))
             /\ before.s.is_create /\ before.s.begin_depth > 0)
            => level = before.level

\* C29: the counters of the splitter never go below zero, whatever keywords
\* come, END CASE or END with nothing open included.
C29_CountersNonNegative == begin_depth >= 0 /\ in_case >= 0

RECURSIVE OpenFrames(_, _)
\* the frames open below the list id: the lists not yet wrapped, each the
\* last child of the one above
OpenFrames(n, id) ==
    IF n[id].tokens # <<>> /\ n[Last(n[id].tokens)].cls = "list"
    THEN <<Last(n[id].tokens)>> \o OpenFrames(n, Last(n[id].tokens))
    ELSE <<>>

\* the innermost open frame; the list of the statement when none is open
Innermost == Last(<<root>> \o OpenFrames(nodes, root))

\* C22: the frame protocol of the splitter.  While the stream is read the
\* number of open frames equals the level, and the token read last is the
\* last token of the innermost open frame, or the last token of the frame
\* just wrapped as a Statement at the end of the innermost open frame; when
\* the input has ended, no frame of the yielded tree is left unwrapped.
C22_FrameProtocol ==
    /\ (pc = "split" /\ ~raised) =>
         /\ Len(OpenFrames(nodes, root)) = level
         /\ made # <<>> =>
              LET kids == nodes[Innermost].tokens
              IN  /\ kids # <<>>
                  /\ \/ Last(kids) = Last(made)
                     \/ /\ nodes[Last(kids)].cls = "Statement"
                        /\ nodes[Last(kids)].tokens # <<>>
                        /\ Last(nodes[Last(kids)].tokens) = Last(made)
    /\ (pc = "done" /\ ~raised) =>
         \A g \in TreeNodes : nodes[g].cls # "list"

\* token_prev and token_next pass over the child id: whitespace or comment
Passed(id) ==
    \/ is_whitespace(nodes, id)
    \/ nodes[id].cls = "Comment"
    \/ InTT(nodes[id].ttype, T.Comment)

\* the position of the child x in the list g
PlaceIn(g, x) == CHOOSE k \in DOMAIN nodes[g].tokens : nodes[g].tokens[k] = x

\* the Select group g ends where one of its three closers puts the end
SelectClosed(g) ==
    LET p == nodes[g].parent
        sibs == nodes[p].tokens
        k == PlaceIn(p, g)
        last == Last(nodes[g].tokens)
    IN  \/ match(nodes, last, Select_M_CLOSE[1])
        \/ /\ ~Passed(last)
           /\ \E j \in (k + 1)..Len(sibs) :
                /\ MatchAny(nodes, sibs[j], Union_M_DIVIDER)
                /\ \A i \in (k + 1)..(j - 1) : Passed(sibs[i])
        \/ /\ nodes[p].cls = "Parenthesis"
           /\ k = Len(sibs) - 1
           /\ MatchAny(nodes, Last(sibs), M_CLOSE("Parenthesis"))

\* the positions of the list g that hold a SELECT token
OpenSelects(g) == Direct(nodes, g, M_OPEN("Select"))

\* no SELECT is left in the list g that one of the closers should have
\* closed
SelectsClosed(g) ==
    LET sibs == nodes[g].tokens
    IN  /\ \A j \in DOMAIN sibs :
              match(nodes, sibs[j], Select_M_CLOSE[1]) =>
                  \A i \in OpenSelects(g) : i > j
        /\ \A j \in DOMAIN sibs :
              MatchAny(nodes, sibs[j], Union_M_DIVIDER) =>
                  \/ \A i \in OpenSelects(g) : i > j
                  \/ \E k \in 1..(j - 1) :
                        /\ nodes[sibs[k]].cls = "Select"
                        /\ \A i \in (k + 1)..(j - 1) : Passed(sibs[i])
        /\ nodes[g].cls = "Parenthesis" => Cardinality(OpenSelects(g)) # 1

KidsOf(n, g) ==
    [k \in DOMAIN n[g].tokens |->
        Tok(n[n[g].tokens[k]].ttype, n[n[g].tokens[k]].value)]

RECURSIVE IsForBody(_)
RECURSIVE IsForForm(_)
\* the position of the LOOP that ends the header of the loop f: 1 for a bare
\* LOOP, else that of the first LOOP after FOR..IN (0 if there is none)
HeaderEnd(f) ==
    IF f[1] = kLOOP THEN 1
    ELSE LET hs == {h \in 2..Len(f) : f[h] = kLOOP}
         IN  IF hs = {} THEN 0 ELSE MinOf(hs)

\* one loop: FOR..IN .. LOOP .. END LOOP or LOOP .. END LOOP, with
\* well-nested loops in its body and none in its header
IsForForm(f) ==
    /\ Len(f) >= 2
    /\ f[1] \in {kFORIN, kLOOP}
    /\ Last(f) = kENDLOOP
    /\ HeaderEnd(f) # 0
    /\ \A i \in 2..(HeaderEnd(f) - 1) : f[i] \in {tNAME, tWS}
    /\ IsForBody(SubSeq(f, HeaderEnd(f) + 1, Len(f) - 1))

\* a well-nested sequence of loops and other tokens
IsForBody(s) ==
    \/ s = <<>>
    \/ s[1] \in {tNAME, tWS} /\ IsForBody(Tail(s))
    \/ \E k \in 2..Len(s) :
           IsForForm(SubSeq(s, 1, k)) /\ IsForBody(SubSeq(s, k + 1, Len(s)))

RECURSIVE ForShapes(_)
\* the shapes of the children a well-nested sequence is to become: one For
\* group for every loop, from its first token to its END LOOP
ForShapes(s) ==
    IF s = <<>> THEN <<>>
    ELSE IF s[1] \in {tNAME, tWS}
    THEN <<<<"Token", s[1].ttype, s[1].value>>>> \o ForShapes(Tail(s))
    ELSE LET k == MinOf({j \in 2..Len(s) : IsForForm(SubSeq(s, 1, j))})
             h == HeaderEnd(SubSeq(s, 1, k))
         IN  <<<<"For", [i \in 1..h |-> <<"Token", s[i].ttype, s[i].value>>]
                         \o ForShapes(SubSeq(s, h + 1, k - 1))
                         \o <<<<"Token", s[k].ttype, s[k].value>>>>>>>>
             \o ForShapes(SubSeq(s, k + 1, Len(s)))

C25_HeadingEndsBeforeCloser ==
    (passno = PassNo("group_function_heading") /\ pc \in {"group", "done"}
     /\ ~raised) =>
        \A g \in TreeNodes :
            nodes[g].cls = "FunctionHeading" =>
                LET sibs == nodes[nodes[g].parent].tokens
                    k == PlaceIn(nodes[g].parent, g)
                IN  /\ MatchAny(nodes, nodes[g].tokens[1], M_OPEN("FunctionHeading"))
                    /\ Direct(nodes, g, M_CLOSE("FunctionHeading")) = {}
                    /\ k < Len(sibs)
                    /\ MatchAny(nodes, sibs[k + 1], M_CLOSE("FunctionHeading"))

\* the heading a block pass looks for and the block it makes
HeadingOf(name) ==
    IF name = "group_procedure_block" THEN "ProcedureHeading" ELSE "FunctionHeading"

BlockOf(name) ==
    IF name = "group_procedure_block" THEN "ProcedureBlock" ELSE "FunctionBlock"

\* the list begins with the heading of the pass, its next token that is not
\* whitespace is IS or AS, a Begin group follows, and it is the only heading
BlockCase ==
    /\ pc \in BlockPasses
    /\ tree1[root].tokens # <<>>
    /\ tree1[tree1[root].tokens[1]].cls = HeadingOf(pc)
    /\ \A k \in 2..Len(tree1[root].tokens) :
           tree1[tree1[root].tokens[k]].cls \notin {"FunctionHeading", "ProcedureHeading"}
    /\ LET nx == token_next(tree1, root, 0, TRUE, TRUE)
       IN  /\ nx.t # 0
           /\ IsOrAs(tree1, nx.t)
           /\ token_next_by(tree1, root, {"Begin"}, {}, NoT, nx.i).t # 0

\* the lengths a block may have in the case above: through the Begin group
\* when nothing follows it, else through the token after the Begin group,
\* or through the ';' after that token
BlockLens ==
    LET nx == token_next(tree1, root, 0, TRUE, TRUE)
        b == token_next_by(tree1, root, {"Begin"}, {}, NoT, nx.i)
        e == token_next(tree1, root, b.i, TRUE, TRUE)
        s == IF e.t = 0 THEN e ELSE token_next(tree1, root, e.i, TRUE, TRUE)
    IN  IF e.t = 0 THEN {b.i + 1}
        ELSE IF s.t # 0 /\ tree1[s.t].value = ";" THEN {e.i + 1, s.i + 1}
        ELSE {e.i + 1}

\* C26: group_function_block and group_procedure_block.  A heading followed
\* by IS or AS and a Begin group becomes a block that runs from the heading
\* through the Begin group and the token after it (and a ';' after that),
\* whatever follows the Begin group, tokens or none, for both passes.
C26_BlockSpan ==
    BlockCase =>
        /\ ~raised
        /\ nodes[root].tokens # <<>>
        /\ LET g == nodes[root].tokens[1]
           IN  /\ nodes[g].cls = BlockOf(pc)
               /\ Len(nodes[g].tokens) \in BlockLens
               /\ Len(nodes[root].tokens) =
                      Len(tree1[root].tokens) - Len(nodes[g].tokens) + 1
               /\ nodes[nodes[g].tokens[1]].cls = HeadingOf(pc)

\* the Parenthesis of the call in a tree built by Call
TheParenthesis == CHOOSE g \in Descendants(tree1, root) : tree1[g].cls = "Parenthesis"

\* the places of the list g of the tree n that hold a ','
Commas(n, g) ==
    {k \in DOMAIN n[g].tokens : MatchAny(n, n[g].tokens[k], FunctionParam_SEPARATOR)}

\* the places of the list g of the tree n that hold a FunctionParam
Params(n, g) ==
    {k \in DOMAIN n[g].tokens : n[n[g].tokens[k]].cls = "FunctionParam"}

\* C27: group_function_params.  In the Parenthesis of a Function k commas
\* give k + 1 FunctionParam groups; '(' , ')' and the commas stay direct
\* children of the Parenthesis, and every other child between them that is
\* not whitespace is inside a FunctionParam.
C27_OneParamPerSlot ==
    pc = "group_function_params" =>
        LET p == TheParenthesis
            kids == nodes[p].tokens
        IN  /\ ~raised
            /\ flatten(nodes, root) = flatten(tree1, root)
            /\ MatchAny(nodes, kids[1], M_OPEN("Parenthesis"))
            /\ MatchAny(nodes, Last(kids), M_CLOSE("Parenthesis"))
            /\ Cardinality(Commas(nodes, p)) = Cardinality(Commas(tree1, p))
            /\ Cardinality(Params(nodes, p)) = Cardinality(Commas(tree1, p)) + 1
            /\ \A k \in 2..(Len(kids) - 1) :
                   \/ k \in Commas(nodes, p) \cup Params(nodes, p)
                   \/ is_whitespace(nodes, kids[k])

\* C30: no pass of grouping.group makes an empty group (as a call of
\* group_tokens with end < start would): every group of a yielded tree has
\* a child, also for f() and f(x,).
C30_NoEmptyGroup ==
    (pc \in {"group", "done"} /\ ~raised) =>
        \A g \in TreeNodes : is_group(nodes, g) => nodes[g].tokens # <<>>

\* a Statement below the root or an Identifier with exactly one child
IsWrapper(n, id) ==
    /\ n[id].cls \in {"Statement", "Identifier"}
    /\ n[id].parent # 0
    /\ Len(n[id].tokens) = 1

RECURSIVE Unwrapped(_, _)
\* the shape of the tree at id with every wrapper replaced by its sole child
Unwrapped(n, id) ==
    IF n[id].cls = "Token" THEN Shape(n, id)
    ELSE IF IsWrapper(n, id) THEN Unwrapped(n, n[id].tokens[1])
    ELSE <<n[id].cls, [k \in 1..Len(n[id].tokens) |-> Unwrapped(n, n[id].tokens[k])]>>

====
